---- MODULE Spec2Model ----
(***************************************************************************)
(* State-machine model of the EBS-Front event-booking client.              *)
(*                                                                         *)
(*  - the data store (tables events, bookings) behind the supabase client  *)
(*  - EventDetails views (src/src/pages/EventDetails.tsx, lines 13-308)    *)
(*  - the Dashboard view  (src/src/pages/EventDetails.tsx, lines 425-564)  *)
(*  - the Admin console: events, users, orders, overview and toasts        *)
(*    (src/unnamed/part_002)                                               *)
(*  - the event list and its filter (src/src/pages/Events.tsx)             *)
(*  - the route table and ProtectedRoute (src/src/App.tsx,                 *)
(*    src/unnamed/part_001)                                                *)
(*                                                                         *)
(* Specifications: Spec (two booking views over one store), FairSpec (one  *)
(* booking view, with the redirect timer's fairness), SpecStale (a booking *)
(* view next to an admin editing prices), SpecDash (the Dashboard over a   *)
(* store that already holds bookings), SpecLife (two booking views and     *)
(* the Dashboard of one user), SpecEvents (the event list), SpecRoutes     *)
(* (two browser tabs and the auth context), SpecConsole (the Admin         *)
(* console editing capacities and creating events), SpecOrderDesk (the     *)
(* Admin console's orders), SpecDelete (the Admin console deleting         *)
(* events that bookings and orders refer to), SpecRoles (the Admin         *)
(* console's users), SpecSave (the Admin console saving events with their  *)
(* status), SpecOverview (the Admin console's figures), SpecWrites (all    *)
(* writes of the Admin console, one at a time), SpecLoad (the first load   *)
(* of the three pages, with the fairness of effects and answers).          *)
(*                                                                         *)
(* Every `await` of a handler is a point where other handlers, views and   *)
(* the backend may run, so a handler is one action per segment between     *)
(* awaits.  The backend is outside the repository: each call either        *)
(* succeeds or returns an error, nondeterministically.                     *)
(*                                                                         *)
(* Prices are whole numbers of the currency's smallest unit.               *)
(***************************************************************************)
EXTENDS Integers, Sequences, FiniteSets, TLC

\* ------------------------------------------------------------------ bounds
MaxSeats == 2
MaxBookings == 2
MaxTime == 2
MaxLen == 2
MaxTimers == 2

\* ------------------------------------------------------------- value sets
Views == {"v1", "v2"}
Users == {"u1", "u2"}
NoUser == "nouser"
EventIds == {"e1", "e2"}
NewEventIds == {"e3"}
NoSuchId == "e9"
NoId == "undefined"
RouteIds == EventIds \cup {NoSuchId, NoId}
Prices == {0, 25}
Seats == 0..MaxSeats
Times == 0..MaxTime
\* what the ticket input is given: a negative count, 0, the ends of the
\* range of seats and the count after it
TicketInputs == {0 - 1, 0, 1, MaxSeats, MaxSeats + 1}

\* text: a string is a sequence of letters, "M" being the capital of "m"
Letters == {"m", "M", "j"}
Strings(n) == UNION {[1..k -> Letters] : k \in 0..n}
\* what the search box is given
Queries == Strings(MaxLen)
\* the titles, descriptions and locations of the events table
FieldTexts == {<<"j">>, <<"M", "j">>}
EventCategories == {"Music", "Sports"}
\* the category buttons and the price buttons
CategoryChoices == {"All"} \cup EventCategories
PriceChoices == {"all", "free", "paid"}

\* browser tabs, and the paths of the route table
Tabs == {"t1", "t2"}
RoutePaths == {"/login", "/signup", "/", "/events", "/events/:id",
               "/dashboard", "/admin"}

\* the orders table's ids, latest first, and the statuses of the select
UserSeq == <<"u2", "u1">>
Roles == {"user", "admin"}
EventStatuses == {"draft", "published", "active", "completed", "cancelled"}
OrderSeq == <<"o2", "o1">>
OrderIds == {OrderSeq[i] : i \in 1..Len(OrderSeq)}
OrderStatuses == {"pending", "confirmed", "completed", "cancelled"}
\* a total_amount that is null
NullAmount == 0 - 1

MsgNone == ""
MsgRange == "Please select between 1 and N tickets"
MsgFailed == "Failed to book event. Please try again."

\* ------------------------------------------------------------------ state
VARIABLES
    \* data store
    dbEvents,          \* events table: id -> row (without the id column)
    dbBookings,        \* bookings table, in creation order
    \* EventDetails, one component instance per view
    id,                \* useParams().id
    user,              \* useAuth().user
    mounted,           \* the component instance is mounted
    location,          \* the route the view's router is at
    event,             \* useState<Event | null>
    loading,
    showBookingModal,
    numTickets,
    bookingLoading,
    bookingError,
    bookingSuccess,
    redirectTimerRef,  \* "null", or the state of the timer the ref holds
    pc,                \* position of the view's async handlers
    req,               \* the insert payload in flight
    \* Admin console
    adminEvents,       \* useState<Event[]> (rows as fetched)
    adminLoading,
    eventModal,
    saving,
    adminPc,
    saveReq,           \* the eventModal value saveEvent captured
    adminToast,        \* useState<{ msg, type } | null>
    toastTimers,       \* the timers of showToast that have not fired yet
    toastAhead,        \* how many of them are older than the toast on show
    \* Dashboard
    dashUser,
    upcomingBookings,
    pastBookings,
    dashLoading,
    dashPc,
    dashTarget,        \* bookingId of the cancel in flight
    dashAlert,         \* alert('Failed to cancel booking...') was shown
    dashConfirmed,     \* what window.confirm answered to the last cancel click
    now,               \* the clock
    \* Events (the event list)
    dbEventText,       \* events table, the text columns: id -> row
    events,            \* useState<Event[]>
    filteredEvents,
    listLoading,
    searchQuery,
    selectedCategory,
    priceFilter,
    listPc,
    \* the router and the auth context
    authLoading,       \* useAuth().loading
    authUser,          \* useAuth().user
    isAdmin,           \* useAuth().isAdmin
    requested,         \* per browser tab: the path last asked for
    route,             \* per browser tab: the path the router is at
    shown,             \* per browser tab: what the matched route renders
    \* Admin console, the orders
    dbOrders,          \* orders table: id -> row (without the id column)
    orders,            \* useState<Order[]>
    orderPc,           \* position of updateOrderStatus
    orderReq,          \* the (id, status) of the update in flight
    \* Admin console, the events' status, the users and the deletes
    dbEventStatus,     \* events table, the status column the console reads
    dbProfiles,        \* profiles table: id -> row (without the id column)
    users,             \* useState<Profile[]>
    rolePc,            \* position of toggleRole
    roleReq,           \* the (id, next) of the role update in flight
    delPc,             \* position of deleteEvent
    delReq,            \* the id of the delete in flight
    delConfirmed       \* what confirm() answered to the last Delete click

storeVars == <<dbEvents, dbBookings>>
viewVars == <<id, user, mounted, location, event, loading, showBookingModal,
              numTickets, bookingLoading, bookingError, bookingSuccess,
              redirectTimerRef, pc, req>>
adminVars == <<adminEvents, adminLoading, eventModal, saving, adminPc, saveReq,
              adminToast, toastTimers, toastAhead>>
dashVars == <<dashUser, upcomingBookings, pastBookings, dashLoading, dashPc,
              dashTarget, dashAlert, dashConfirmed, now>>
listVars == <<dbEventText, events, filteredEvents, listLoading, searchQuery,
              selectedCategory, priceFilter, listPc>>
guardVars == <<authLoading, authUser, isAdmin, requested, route, shown>>
orderVars == <<dbOrders, orders, orderPc, orderReq>>
deskVars == <<dbEventStatus, dbProfiles, users, rolePc, roleReq, delPc, delReq,
             delConfirmed>>
toastVars == <<adminToast, toastTimers, toastAhead>>
pageVars == <<listVars, guardVars, orderVars, deskVars>>
vars == <<storeVars, viewVars, adminVars, dashVars, pageVars>>

\* --------------------------------------------------------------- the store
\* A row of the events table as the client sees it (select('*')).
EventRow(eid) == [id |-> eid] @@ dbEvents[eid]

NullEvent == [id |-> "null", price |-> 0, capacity |-> 0,
              available_seats |-> 0, event_date |-> 0]

NoReq == [event_id |-> "null", user_id |-> NoUser, num_tickets |-> 0,
          total_price |-> 0, status |-> "none"]

\* supabase.from('events').select('*').eq('id', id).maybeSingle()
SelectEvent(eid) == IF eid \in DOMAIN dbEvents THEN EventRow(eid) ELSE NullEvent

\* supabase.from('bookings').insert(payload): the store assigns id, created_at
InsertBooking(payload) ==
    Append(dbBookings, [id |-> Len(dbBookings) + 1] @@ payload)


RECURSIVE SumTickets(_, _)
SumTickets(rows, eid) ==
    IF rows = <<>> THEN 0
    ELSE (IF Head(rows).event_id = eid /\ Head(rows).status = "confirmed"
          THEN Head(rows).num_tickets ELSE 0) + SumTickets(Tail(rows), eid)

\* the tickets of the confirmed bookings of an event
ConfirmedTickets(eid) == SumTickets(dbBookings, eid)

\* ------------------------------------------------------------ EventDetails
\* onChange of the ticket input: parseInt(e.target.value) || 1
ParseTickets(x) == IF x = 0 THEN 1 ELSE x

\* mutants of the range check: the upper bound off by one, the lower bound lost
OutOfRange_OffByOne(n, ev) == n < 1 \/ n >= ev.available_seats

OutOfRange_NoLower(n, ev) == n > ev.available_seats

\* numTickets < 1 || numTickets > event.available_seats
OutOfRange(n, ev) == n < 1 \/ n > ev.available_seats

\* mutant of the price: the multiplication lost
TotalPrice_Unit(ev, n) == ev.price

\* event.price * numTickets
TotalPrice(ev, n) == ev.price * n

\* the object handed to supabase.from('bookings').insert
BookingPayload(ev, u, n) ==
    [event_id |-> ev.id, user_id |-> u, num_tickets |-> n,
     total_price |-> TotalPrice(ev, n), status |-> "confirmed"]

\* a React state setter: an update of an unmounted component is dropped
SetState(f, v, x) == IF mounted[v] THEN [f EXCEPT ![v] = x] ELSE f

\* mutant of the cleanup: the timer is left running
ClearedTimer_Kept(t) == t

\* the cleanup of the effect of lines 53-59: clearTimeout on the ref's timer
ClearedTimer(t) == IF t = "pending" THEN "cleared" ELSE t

\* The component instance goes away: its cleanup runs and its state is lost.
\* Closures of handlers in flight keep what they captured (pc, req).
Teardown(v) ==
    /\ mounted' = [mounted EXCEPT ![v] = FALSE]
    /\ redirectTimerRef' = [redirectTimerRef EXCEPT ![v] = ClearedTimer(@)]
    /\ event' = [event EXCEPT ![v] = NullEvent]
    /\ loading' = [loading EXCEPT ![v] = TRUE]
    /\ showBookingModal' = [showBookingModal EXCEPT ![v] = FALSE]
    /\ numTickets' = [numTickets EXCEPT ![v] = 1]
    /\ bookingLoading' = [bookingLoading EXCEPT ![v] = FALSE]
    /\ bookingError' = [bookingError EXCEPT ![v] = MsgNone]
    /\ bookingSuccess' = [bookingSuccess EXCEPT ![v] = FALSE]

\* useEffect(() => { loadEvent(); }): up to the await
LoadEvent(v) ==
    /\ mounted[v] /\ pc[v] = "mount"
    /\ pc' = [pc EXCEPT ![v] = IF id[v] = NoId THEN "idle" ELSE "loadSent"]
    /\ UNCHANGED <<storeVars, adminVars, dashVars, pageVars, id, user, mounted, location,
                   event, loading, showBookingModal, numTickets, bookingLoading,
                   bookingError, bookingSuccess, redirectTimerRef, req>>

\* loadEvent after the await: the store answers with the row, null or an error
LoadEventDone(v) ==
    /\ pc[v] = "loadSent"
    /\ \E ok \in BOOLEAN :
          event' = IF ok THEN SetState(event, v, SelectEvent(id[v])) ELSE event
    /\ loading' = SetState(loading, v, FALSE)
    /\ pc' = [pc EXCEPT ![v] = "idle"]
    /\ UNCHANGED <<storeVars, adminVars, dashVars, pageVars, id, user, mounted, location,
                   showBookingModal, numTickets, bookingLoading, bookingError,
                   bookingSuccess, redirectTimerRef, req>>

\* what the render offers: the page body needs !loading and an event
Rendered(v) == mounted[v] /\ ~loading[v] /\ event[v] # NullEvent

\* the Book Now button, disabled when sold out
OpenModal(v) ==
    /\ Rendered(v) /\ ~showBookingModal[v]
    /\ event[v].available_seats # 0
    /\ showBookingModal' = [showBookingModal EXCEPT ![v] = TRUE]
    /\ UNCHANGED <<storeVars, adminVars, dashVars, pageVars, id, user, mounted, location,
                   event, loading, numTickets, bookingLoading, bookingError,
                   bookingSuccess, redirectTimerRef, pc, req>>

\* the ticket input of the modal's form
SetNumTickets(v, x) ==
    /\ Rendered(v) /\ showBookingModal[v] /\ ~bookingSuccess[v]
    /\ numTickets' = [numTickets EXCEPT ![v] = ParseTickets(x)]
    /\ UNCHANGED <<storeVars, adminVars, dashVars, pageVars, id, user, mounted, location,
                   event, loading, showBookingModal, bookingLoading, bookingError,
                   bookingSuccess, redirectTimerRef, pc, req>>

\* mutant of closeModal: the `if (!bookingSuccess)` test lost
closeModal_Always(v) ==
    /\ Rendered(v) /\ showBookingModal[v]
    /\ showBookingModal' = [showBookingModal EXCEPT ![v] = FALSE]
    /\ bookingError' = [bookingError EXCEPT ![v] = MsgNone]
    /\ numTickets' = [numTickets EXCEPT ![v] = 1]
    /\ UNCHANGED <<storeVars, adminVars, dashVars, pageVars, id, user, mounted, location,
                   event, loading, bookingLoading, bookingSuccess,
                   redirectTimerRef, pc, req>>

\* the modal's Cancel button and its backdrop
closeModal(v) ==
    /\ Rendered(v) /\ showBookingModal[v]
    /\ IF ~bookingSuccess[v]
       THEN /\ showBookingModal' = [showBookingModal EXCEPT ![v] = FALSE]
            /\ bookingError' = [bookingError EXCEPT ![v] = MsgNone]
            /\ numTickets' = [numTickets EXCEPT ![v] = 1]
       ELSE UNCHANGED <<showBookingModal, bookingError, numTickets>>
    /\ UNCHANGED <<storeVars, adminVars, dashVars, pageVars, id, user, mounted, location,
                   event, loading, bookingLoading, bookingSuccess,
                   redirectTimerRef, pc, req>>

\* navigate(path) from the view: the route changes and the view is torn down
Navigate(v, path) ==
    /\ location' = [location EXCEPT ![v] = path]
    /\ IF mounted[v]
       THEN Teardown(v)
       ELSE UNCHANGED <<mounted, redirectTimerRef, event, loading,
                        showBookingModal, numTickets, bookingLoading,
                        bookingError, bookingSuccess>>

\* mutant of the sign-in check: nobody counts as signed out
NotSignedIn_Never(u) == FALSE

\* if (!user)
NotSignedIn(u) == u = NoUser

\* the Confirm Booking button (disabled while bookingLoading): handleBooking
\* up to the await.  The button is rendered only with an event loaded, so the
\* `if (!event) return` branch is never taken.
handleBooking(v) ==
    /\ Rendered(v) /\ showBookingModal[v]
    /\ ~bookingSuccess[v] /\ ~bookingLoading[v]
    /\ IF NotSignedIn(user[v])
       THEN /\ Navigate(v, "/login")
            /\ UNCHANGED <<pc, req>>
       ELSE IF OutOfRange(numTickets[v], event[v])
       THEN /\ bookingError' = [bookingError EXCEPT ![v] = MsgRange]
            /\ UNCHANGED <<mounted, location, redirectTimerRef, event, loading,
                           showBookingModal, numTickets, bookingLoading,
                           bookingSuccess, pc, req>>
       ELSE /\ bookingError' = [bookingError EXCEPT ![v] = MsgNone]
            /\ bookingLoading' = [bookingLoading EXCEPT ![v] = TRUE]
            /\ req' = [req EXCEPT ![v] =
                          BookingPayload(event[v], user[v], numTickets[v])]
            /\ pc' = [pc EXCEPT ![v] = "insertSent"]
            /\ UNCHANGED <<mounted, location, redirectTimerRef, event, loading,
                           showBookingModal, numTickets, bookingSuccess>>
    /\ UNCHANGED <<storeVars, adminVars, dashVars, pageVars, id, user>>

\* mutant of the insert: the store refuses a booking beyond the seats left
StoreInsert_SeatChecked(v) ==
    /\ pc[v] = "insertSent"
    /\ \E ok \in BOOLEAN :
          IF /\ ok
             /\ ConfirmedTickets(req[v].event_id) + req[v].num_tickets
                   <= dbEvents[req[v].event_id].available_seats
          THEN /\ dbBookings' = InsertBooking(req[v])
               /\ pc' = [pc EXCEPT ![v] = "insertOk"]
          ELSE /\ pc' = [pc EXCEPT ![v] = "insertErr"]
               /\ UNCHANGED dbBookings
    /\ UNCHANGED <<dbEvents, adminVars, dashVars, pageVars, id, user, mounted, location,
                   event, loading, showBookingModal, numTickets, bookingLoading,
                   bookingError, bookingSuccess, redirectTimerRef, req>>

\* mutant of the insert: the booking also takes its seats off the event
StoreInsert_Decrement(v) ==
    /\ pc[v] = "insertSent"
    /\ \E ok \in BOOLEAN :
          IF ok
          THEN /\ dbBookings' = InsertBooking(req[v])
               /\ dbEvents' = [dbEvents EXCEPT ![req[v].event_id].available_seats =
                                  @ - req[v].num_tickets]
               /\ pc' = [pc EXCEPT ![v] = "insertOk"]
          ELSE /\ pc' = [pc EXCEPT ![v] = "insertErr"]
               /\ UNCHANGED <<dbBookings, dbEvents>>
    /\ UNCHANGED <<adminVars, dashVars, pageVars, id, user, mounted, location,
                   event, loading, showBookingModal, numTickets, bookingLoading,
                   bookingError, bookingSuccess, redirectTimerRef, req>>

\* the store executes the insert, or fails it
StoreInsert(v) ==
    /\ pc[v] = "insertSent"
    /\ \E ok \in BOOLEAN :
          IF ok
          THEN /\ dbBookings' = InsertBooking(req[v])
               /\ pc' = [pc EXCEPT ![v] = "insertOk"]
          ELSE /\ pc' = [pc EXCEPT ![v] = "insertErr"]
               /\ UNCHANGED dbBookings
    /\ UNCHANGED <<dbEvents, adminVars, dashVars, pageVars, id, user, mounted, location,
                   event, loading, showBookingModal, numTickets, bookingLoading,
                   bookingError, bookingSuccess, redirectTimerRef, req>>

\* what the try block does after a successful insert
AfterInsertOk(v) ==
    /\ bookingSuccess' = SetState(bookingSuccess, v, TRUE)
    /\ redirectTimerRef' = [redirectTimerRef EXCEPT ![v] = "pending"]
    /\ UNCHANGED bookingError

\* mutant of the error path: `if (error) throw error` lost
AfterInsertErr_NoThrow(v) == AfterInsertOk(v)

\* the catch block
AfterInsertErr(v) ==
    /\ bookingError' = SetState(bookingError, v, MsgFailed)
    /\ UNCHANGED <<bookingSuccess, redirectTimerRef>>

\* handleBooking after the await: try / catch / finally
handleBookingDone(v) ==
    /\ pc[v] \in {"insertOk", "insertErr"}
    /\ IF pc[v] = "insertOk" THEN AfterInsertOk(v) ELSE AfterInsertErr(v)
    /\ bookingLoading' = SetState(bookingLoading, v, FALSE)
    /\ pc' = [pc EXCEPT ![v] = "idle"]
    /\ req' = [req EXCEPT ![v] = NoReq]
    /\ UNCHANGED <<storeVars, adminVars, dashVars, pageVars, id, user, mounted, location,
                   event, loading, showBookingModal, numTickets>>

\* the setTimeout callback, 2000 ms after it was set
RedirectFire(v) ==
    /\ redirectTimerRef[v] = "pending"
    /\ location' = [location EXCEPT ![v] = "/dashboard"]
    /\ IF mounted[v]
       THEN /\ mounted' = [mounted EXCEPT ![v] = FALSE]
            /\ event' = [event EXCEPT ![v] = NullEvent]
            /\ loading' = [loading EXCEPT ![v] = TRUE]
            /\ showBookingModal' = [showBookingModal EXCEPT ![v] = FALSE]
            /\ numTickets' = [numTickets EXCEPT ![v] = 1]
            /\ bookingLoading' = [bookingLoading EXCEPT ![v] = FALSE]
            /\ bookingError' = [bookingError EXCEPT ![v] = MsgNone]
            /\ bookingSuccess' = [bookingSuccess EXCEPT ![v] = FALSE]
       ELSE UNCHANGED <<mounted, event, loading, showBookingModal, numTickets,
                        bookingLoading, bookingError, bookingSuccess>>
    /\ redirectTimerRef' = [redirectTimerRef EXCEPT ![v] = "fired"]
    /\ UNCHANGED <<storeVars, adminVars, dashVars, pageVars, id, user, pc, req>>

\* the user leaves the page (Back to Events, the navbar, the browser)
Leave(v) ==
    /\ mounted[v] /\ pc[v] # "mount"
    /\ Navigate(v, "/events")
    /\ UNCHANGED <<storeVars, adminVars, dashVars, pageVars, id, user, pc, req>>

\* ------------------------------------------------------------------ Admin
\* useState<Event[]>([]): the rows by id
NoRows == [e \in {} |-> NullEvent]

\* useState<Partial<Event> | null>(null)
NoModal == [id |-> "null", price |-> 0, capacity |-> 0,
            available_seats |-> 0, event_date |-> 0, status |-> ""]

\* setEventModal({ status: 'draft' }): no id; the number fields are unset
\* and read as 0 where the store fills them in
NewModal == [id |-> "", price |-> 0, capacity |-> 0,
             available_seats |-> 0, event_date |-> 0, status |-> "draft"]

\* mutant of the destructuring: the status is left out of the fields
Fields_NoStatus(modal) ==
    [price |-> modal.price, capacity |-> modal.capacity,
     available_seats |-> modal.available_seats,
     event_date |-> modal.event_date, status |-> ""]

\* const { id, created_at, ...fields } = eventModal
Fields(modal) == [price |-> modal.price, capacity |-> modal.capacity,
                  available_seats |-> modal.available_seats,
                  event_date |-> modal.event_date, status |-> modal.status]

\* the columns of `fields` that the events table of the booking pages holds
StoreColumns(fields) ==
    [price |-> fields.price, capacity |-> fields.capacity,
     available_seats |-> fields.available_seats,
     event_date |-> fields.event_date]

\* a row of the events table as the console reads it: with its status
AdminRow(eid) == EventRow(eid) @@ [status |-> dbEventStatus[eid]]

\* useState<{ msg, type } | null>(null)
NoToast == [msg |-> MsgNone, type |-> "none"]

\* showToast(msg, type): the toast goes on show and a timer of 3000 ms is
\* started that nothing ever clears
showToast(msg, type) ==
    /\ toastTimers < MaxTimers
    /\ adminToast' = [msg |-> msg, type |-> type]
    /\ toastAhead' = toastTimers
    /\ toastTimers' = toastTimers + 1

\* the callback of the oldest timer: setToast(null).  All timers wait 3000 ms,
\* so they fire in the order in which they were started.
ToastTimeout ==
    /\ toastTimers > 0
    /\ toastTimers' = toastTimers - 1
    /\ adminToast' = NoToast
    /\ toastAhead' = 0
    /\ UNCHANGED <<storeVars, viewVars, dashVars, pageVars, adminEvents, adminLoading,
                   eventModal, saving, adminPc, saveReq>>

\* useEffect(() => { fetchAll(); }, []) and the Refresh button: up to the await
fetchAll ==
    /\ \/ adminPc = "mount"
       \/ adminPc = "idle" /\ eventModal = NoModal
    /\ adminLoading' = TRUE
    /\ adminPc' = "fetching"
    /\ UNCHANGED <<storeVars, viewVars, dashVars, pageVars, adminEvents, eventModal,
                   saving, saveReq, toastVars>>

\* profiles.select('*').order('created_at', { ascending: false })
SelectProfiles ==
    LET InStore(u) == u \in DOMAIN dbProfiles
        have == SelectSeq(UserSeq, InStore)
    IN  [i \in 1..Len(have) |-> [id |-> have[i]] @@ dbProfiles[have[i]]]

\* orders.select(...).order('created_at', { ascending: false })
SelectOrders ==
    LET InStore(o) == o \in DOMAIN dbOrders
        have == SelectSeq(OrderSeq, InStore)
    IN  [i \in 1..Len(have) |-> [id |-> have[i]] @@ dbOrders[have[i]]]

\* fetchAll after the await: if (u.data) setUsers(u.data), if (e.data)
\* setEvents(e.data), if (o.data) setOrders(o.data); each select answers or
\* fails on its own
fetchAllDone ==
    /\ adminPc = "fetching"
    /\ \E ok \in BOOLEAN :
          users' = IF ok THEN SelectProfiles ELSE users
    /\ \E ok \in BOOLEAN :
          adminEvents' = IF ok THEN [e \in DOMAIN dbEvents |-> AdminRow(e)]
                         ELSE adminEvents
    /\ \E ok \in BOOLEAN :
          orders' = IF ok THEN SelectOrders ELSE orders
    /\ adminLoading' = FALSE
    /\ adminPc' = "idle"
    /\ UNCHANGED <<storeVars, viewVars, dashVars, listVars, guardVars, dbOrders,
                   orderPc, orderReq, dbEventStatus, dbProfiles, rolePc, roleReq,
                   delPc, delReq, delConfirmed, eventModal, saving, saveReq, toastVars>>

\* the Edit button of a row: setEventModal(e)
OpenEditModal(e) ==
    /\ adminPc = "idle" /\ ~adminLoading /\ eventModal = NoModal
    /\ e \in DOMAIN adminEvents
    /\ eventModal' = adminEvents[e]
    /\ UNCHANGED <<storeVars, viewVars, dashVars, pageVars, adminEvents, adminLoading,
                   saving, adminPc, saveReq, toastVars>>

\* the + New Event button
OpenNewModal ==
    /\ adminPc = "idle" /\ ~adminLoading /\ eventModal = NoModal
    /\ eventModal' = NewModal
    /\ UNCHANGED <<storeVars, viewVars, dashVars, pageVars, adminEvents, adminLoading,
                   saving, adminPc, saveReq, toastVars>>

\* the Price input of the modal
EditPrice(p) ==
    /\ eventModal # NoModal
    /\ eventModal' = [eventModal EXCEPT !.price = p]
    /\ UNCHANGED <<storeVars, viewVars, dashVars, pageVars, adminEvents, adminLoading,
                   saving, adminPc, saveReq, toastVars>>

\* the Capacity input of the modal
EditCapacity(c) ==
    /\ eventModal # NoModal
    /\ eventModal' = [eventModal EXCEPT !.capacity = c]
    /\ UNCHANGED <<storeVars, viewVars, dashVars, pageVars, adminEvents, adminLoading,
                   saving, adminPc, saveReq, toastVars>>

\* the Status select of the modal
EditStatus(st) ==
    /\ eventModal # NoModal
    /\ eventModal' = [eventModal EXCEPT !.status = st]
    /\ UNCHANGED <<storeVars, viewVars, dashVars, pageVars, adminEvents, adminLoading,
                   saving, adminPc, saveReq, toastVars>>

\* the modal's Cancel button and its backdrop
CloseEventModal ==
    /\ eventModal # NoModal
    /\ eventModal' = NoModal
    /\ UNCHANGED <<storeVars, viewVars, dashVars, pageVars, adminEvents, adminLoading,
                   saving, adminPc, saveReq, toastVars>>

\* the Save Event button (disabled while saving): saveEvent up to the await
saveEvent ==
    /\ eventModal # NoModal /\ ~saving /\ adminPc = "idle"
    /\ saving' = TRUE
    /\ saveReq' = eventModal
    /\ adminPc' = "saving"
    /\ UNCHANGED <<storeVars, viewVars, dashVars, pageVars, adminEvents, adminLoading,
                   eventModal, toastVars>>

\* events.update(fields).eq('id', id)
UpdateEvent(eid, fields) ==
    IF eid \in DOMAIN dbEvents
    THEN [dbEvents EXCEPT ![eid] = StoreColumns(fields)]
    ELSE dbEvents

\* the status column of that update
UpdateEventStatus(eid, fields) ==
    IF eid \in DOMAIN dbEvents
    THEN [dbEventStatus EXCEPT ![eid] = fields.status]
    ELSE dbEventStatus

\* fields.status || 'draft'
InsertStatus(fields) == IF fields.status = "" THEN "draft" ELSE fields.status

\* events.insert({ ...fields, status }): the store assigns the id; the
\* columns the modal does not supply get what the store gives them
InsertEvent(eid, fields, seats) ==
    eid :> [StoreColumns(fields) EXCEPT !.available_seats = seats] @@ dbEvents

\* the status column of that insert
InsertEventStatus(eid, fields) == eid :> InsertStatus(fields) @@ dbEventStatus

\* the store executes the update or the insert, or fails it
StoreSave ==
    /\ adminPc = "saving"
    /\ \/ /\ saveReq.id # ""
          /\ dbEvents' = UpdateEvent(saveReq.id, Fields(saveReq))
          /\ dbEventStatus' = UpdateEventStatus(saveReq.id, Fields(saveReq))
          /\ adminPc' = "saveOk"
       \/ /\ saveReq.id = ""
          /\ \E e \in NewEventIds \ DOMAIN dbEvents, n \in Seats :
                /\ dbEvents' = InsertEvent(e, Fields(saveReq), n)
                /\ dbEventStatus' = InsertEventStatus(e, Fields(saveReq))
          /\ adminPc' = "saveOk"
       \/ /\ adminPc' = "saveErr"
          /\ UNCHANGED <<dbEvents, dbEventStatus>>
    /\ UNCHANGED <<dbBookings, viewVars, dashVars, listVars, guardVars, orderVars,
                   dbProfiles, users, rolePc, roleReq, delPc, delReq,
                   delConfirmed, adminEvents, adminLoading, eventModal, saving, saveReq,
                   toastVars>>

\* saveEvent after the await; on success it ends by calling fetchAll()
saveEventDone ==
    /\ adminPc \in {"saveOk", "saveErr"}
    /\ saving' = FALSE
    /\ IF adminPc = "saveErr"
       THEN /\ showToast("Failed to save event", "err")
            /\ adminPc' = "idle"
            /\ UNCHANGED <<eventModal, adminLoading>>
       ELSE /\ showToast(IF saveReq.id # "" THEN "Event updated"
                                            ELSE "Event created", "ok")
            /\ eventModal' = NoModal
            /\ adminLoading' = TRUE
            /\ adminPc' = "fetching"
    /\ saveReq' = NoModal
    /\ UNCHANGED <<storeVars, viewVars, dashVars, pageVars, adminEvents>>

\* mutant of the flip: every toggle promotes
NextRole_Promote(current) == "admin"

\* const next = current === 'admin' ? 'user' : 'admin'
NextRole(current) == IF current = "admin" THEN "user" ELSE "admin"

\* the role button of a user's row: toggleRole(u.id, u.role) up to the await
toggleRole(i) ==
    /\ ~adminLoading /\ rolePc = "idle"
    /\ i \in 1..Len(users)
    /\ roleReq' = [id |-> users[i].id, next |-> NextRole(users[i].role)]
    /\ rolePc' = "updateSent"
    /\ UNCHANGED <<storeVars, viewVars, adminVars, dashVars, listVars, guardVars,
                   orderVars, dbEventStatus, dbProfiles, users, delPc, delReq,
                   delConfirmed>>

\* profiles.update({ role: next }).eq('id', id)
UpdateRole(uid, next) ==
    IF uid \in DOMAIN dbProfiles THEN [dbProfiles EXCEPT ![uid].role = next]
    ELSE dbProfiles

\* the store executes the update, or fails it
StoreRoleUpdate ==
    /\ rolePc = "updateSent"
    /\ \/ /\ dbProfiles' = UpdateRole(roleReq.id, roleReq.next)
          /\ rolePc' = "updateOk"
       \/ /\ rolePc' = "updateErr"
          /\ UNCHANGED dbProfiles
    /\ UNCHANGED <<storeVars, viewVars, adminVars, dashVars, listVars, guardVars,
                   orderVars, dbEventStatus, users, roleReq, delPc, delReq,
                   delConfirmed>>

\* prev.map(u => u.id === id ? { ...u, role: next } : u)
SetRole(list, uid, next) ==
    [i \in 1..Len(list) |->
        IF list[i].id = uid THEN [list[i] EXCEPT !.role = next] ELSE list[i]]

\* toggleRole after the await
toggleRoleDone ==
    /\ rolePc \in {"updateOk", "updateErr"}
    /\ IF rolePc = "updateErr"
       THEN /\ showToast("Failed to update role", "err")
            /\ UNCHANGED users
       ELSE /\ users' = SetRole(users, roleReq.id, roleReq.next)
            /\ showToast("Role updated", "ok")
    /\ rolePc' = "idle"
    /\ roleReq' = [id |-> "null", next |-> "none"]
    /\ UNCHANGED <<storeVars, viewVars, dashVars, listVars, guardVars, orderVars,
                   dbEventStatus, dbProfiles, delPc, delReq, delConfirmed,
                   adminEvents, adminLoading, eventModal, saving, adminPc, saveReq>>

\* the Delete button of a row: deleteEvent up to the await.
\* if (!confirm('Delete this event? This cannot be undone.')) return;
deleteEvent(e, confirmed) ==
    /\ adminPc = "idle" /\ ~adminLoading /\ eventModal = NoModal
    /\ delPc = "idle"
    /\ e \in DOMAIN adminEvents
    /\ delConfirmed' = IF confirmed THEN "yes" ELSE "no"
    /\ IF confirmed
       THEN delPc' = "deleteSent" /\ delReq' = e
       ELSE UNCHANGED <<delPc, delReq>>
    /\ UNCHANGED <<storeVars, viewVars, adminVars, dashVars, listVars, guardVars,
                   orderVars, dbEventStatus, dbProfiles, users, rolePc, roleReq>>

\* mutant of the delete: the row is kept
DeleteEvent_Soft(eid) == dbEvents

\* events.delete().eq('id', id): the row goes, whatever refers to it
DeleteEvent(eid) == [e \in DOMAIN dbEvents \ {eid} |-> dbEvents[e]]

\* the status column of the deleted row
DeleteEventStatus(eid) ==
    [e \in DOMAIN dbEventStatus \ {eid} |-> dbEventStatus[e]]

\* the store executes the delete, or fails it
StoreDelete ==
    /\ delPc = "deleteSent"
    /\ \/ /\ dbEvents' = DeleteEvent(delReq)
          /\ dbEventStatus' = DeleteEventStatus(delReq)
          /\ delPc' = "deleteOk"
       \/ /\ delPc' = "deleteErr"
          /\ UNCHANGED <<dbEvents, dbEventStatus>>
    /\ UNCHANGED <<dbBookings, viewVars, adminVars, dashVars, listVars, guardVars,
                   orderVars, dbProfiles, users, rolePc, roleReq, delReq,
                   delConfirmed>>

\* prev.filter(e => e.id !== id)
WithoutEvent(rows, eid) == [e \in DOMAIN rows \ {eid} |-> rows[e]]

\* mutant of deleteEvent: the row leaves the list whether or not the delete
\* failed
deleteEventDone_Optimistic ==
    /\ delPc \in {"deleteOk", "deleteErr"}
    /\ IF delPc = "deleteErr"
       THEN showToast("Failed to delete event", "err")
       ELSE showToast("Event deleted", "ok")
    /\ adminEvents' = WithoutEvent(adminEvents, delReq)
    /\ delPc' = "idle"
    /\ delReq' = "null"
    /\ UNCHANGED <<storeVars, viewVars, dashVars, listVars, guardVars, orderVars,
                   dbEventStatus, dbProfiles, users, rolePc, roleReq, delConfirmed,
                   adminLoading, eventModal, saving, adminPc, saveReq>>

\* deleteEvent after the await
deleteEventDone ==
    /\ delPc \in {"deleteOk", "deleteErr"}
    /\ IF delPc = "deleteErr"
       THEN /\ showToast("Failed to delete event", "err")
            /\ UNCHANGED adminEvents
       ELSE /\ showToast("Event deleted", "ok")
            /\ adminEvents' = WithoutEvent(adminEvents, delReq)
    /\ delPc' = "idle"
    /\ delReq' = "null"
    /\ UNCHANGED <<storeVars, viewVars, dashVars, listVars, guardVars, orderVars,
                   dbEventStatus, dbProfiles, users, rolePc, roleReq, delConfirmed,
                   adminLoading, eventModal, saving, adminPc, saveReq>>

\* the status select of an order's row: updateOrderStatus up to the await;
\* onChange fires for a status other than the one on show
updateOrderStatus(i, status) ==
    /\ ~adminLoading /\ orderPc = "idle"
    /\ i \in 1..Len(orders)
    /\ status # orders[i].status
    /\ orderReq' = [id |-> orders[i].id, status |-> status]
    /\ orderPc' = "updateSent"
    /\ UNCHANGED <<storeVars, viewVars, adminVars, dashVars, listVars,
                   guardVars, deskVars, dbOrders, orders>>

\* mutant of the update: a completed or cancelled order keeps its status
UpdateOrder_Terminal(oid, status) ==
    IF oid \in DOMAIN dbOrders
          /\ dbOrders[oid].status \notin {"completed", "cancelled"}
    THEN [dbOrders EXCEPT ![oid].status = status]
    ELSE dbOrders

\* orders.update({ status }).eq('id', id)
UpdateOrder(oid, status) ==
    IF oid \in DOMAIN dbOrders THEN [dbOrders EXCEPT ![oid].status = status]
    ELSE dbOrders

\* the store executes the update, or fails it
StoreOrderUpdate ==
    /\ orderPc = "updateSent"
    /\ \/ /\ dbOrders' = UpdateOrder(orderReq.id, orderReq.status)
          /\ orderPc' = "updateOk"
       \/ /\ orderPc' = "updateErr"
          /\ UNCHANGED dbOrders
    /\ UNCHANGED <<storeVars, viewVars, adminVars, dashVars, listVars,
                   guardVars, deskVars, orders, orderReq>>

\* prev.map(o => o.id === id ? { ...o, status } : o)
SetOrderStatus(list, oid, status) ==
    [i \in 1..Len(list) |->
        IF list[i].id = oid THEN [list[i] EXCEPT !.status = status] ELSE list[i]]

\* updateOrderStatus after the await
updateOrderStatusDone ==
    /\ orderPc \in {"updateOk", "updateErr"}
    /\ IF orderPc = "updateErr"
       THEN /\ showToast("Failed to update order", "err")
            /\ UNCHANGED orders
       ELSE /\ showToast("Order updated", "ok")
            /\ orders' = SetOrderStatus(orders, orderReq.id, orderReq.status)
    /\ orderPc' = "idle"
    /\ orderReq' = [id |-> "null", status |-> "none"]
    /\ UNCHANGED <<storeVars, viewVars, dashVars, listVars, guardVars, deskVars,
                   dbOrders, adminEvents, adminLoading, eventModal, saving,
                   adminPc, saveReq>>

\* mutant of the revenue filter: completed orders are left out
CountsAsRevenue_ConfirmedOnly(o) == o.status = "confirmed"

\* o.status === 'confirmed' || o.status === 'completed'
CountsAsRevenue(o) == o.status = "confirmed" \/ o.status = "completed"

\* o.total_amount ?? 0
AmountOf(o) == IF o.total_amount = NullAmount THEN 0 ELSE o.total_amount

\* list.reduce((s, o) => s + (o.total_amount ?? 0), 0)
RECURSIVE SumAmounts(_)
SumAmounts(list) ==
    IF list = <<>> THEN 0
    ELSE SumAmounts(SubSeq(list, 1, Len(list) - 1)) + AmountOf(list[Len(list)])

\* the overview's figures, computed at every render
totalRevenue == SumAmounts(SelectSeq(orders, CountsAsRevenue))

IsActiveEvent(e) == e.status = "published" \/ e.status = "active"

activeEvents == Cardinality({e \in DOMAIN adminEvents : IsActiveEvent(adminEvents[e])})

IsPendingOrder(o) == o.status = "pending"

pendingOrders == Len(SelectSeq(orders, IsPendingOrder))

\* -------------------------------------------------------------- Dashboard
\* bookings.select('*, event:events(*)').eq('user_id', uid)
\*   .order('created_at', { ascending: false })
RECURSIVE SelectBookings(_, _)
SelectBookings(rows, uid) ==
    IF rows = <<>> THEN <<>>
    ELSE LET rest == SelectBookings(Tail(rows), uid)
             b == Head(rows)
         IN  IF b.user_id = uid
             THEN Append(rest, b @@ [event |-> SelectEvent(b.event_id)])
             ELSE rest

\* mutant of the date test: an event at the current moment is not upcoming
IsUpcoming_Strict(b, t) == b.event.event_date > t /\ b.status = "confirmed"

\* new Date(booking.event.event_date) >= now && booking.status === 'confirmed'
IsUpcoming(b, t) == b.event.event_date >= t /\ b.status = "confirmed"

\* mutant of the forEach: every booking is pushed to both lists
Partition_Both(data, t, want) == data

\* the forEach of loadBookings: the bookings pushed to `upcoming` (want = TRUE)
\* or to `past` (want = FALSE), in the order of data
RECURSIVE Partition(_, _, _)
Partition(data, t, want) ==
    IF data = <<>> THEN <<>>
    ELSE IF IsUpcoming(Head(data), t) = want
         THEN <<Head(data)>> \o Partition(Tail(data), t, want)
         ELSE Partition(Tail(data), t, want)

\* booking.event is null for a booking whose event row is gone: reading
\* booking.event.event_date throws inside the try block
JoinThrows(data) == \E i \in 1..Len(data) : data[i].event = NullEvent

\* useEffect(() => { if (user) loadBookings(); }): up to the await
DashMount ==
    /\ dashPc = "mount"
    /\ dashPc' = IF dashUser = NoUser THEN "idle" ELSE "loadSent"
    /\ UNCHANGED <<storeVars, viewVars, adminVars, pageVars, dashUser,
                   upcomingBookings, pastBookings, dashLoading, dashTarget,
                   dashAlert, dashConfirmed, now>>

\* loadBookings after the await: try / catch / finally
loadBookingsDone ==
    /\ dashPc = "loadSent"
    /\ \E ok \in BOOLEAN :
          LET data == SelectBookings(dbBookings, dashUser)
          IN  IF ok /\ ~JoinThrows(data)
              THEN /\ upcomingBookings' = Partition(data, now, TRUE)
                   /\ pastBookings' = Partition(data, now, FALSE)
              ELSE UNCHANGED <<upcomingBookings, pastBookings>>
    /\ dashLoading' = FALSE
    /\ dashPc' = "idle"
    /\ UNCHANGED <<storeVars, viewVars, adminVars, pageVars, dashUser,
                   dashTarget, dashAlert, dashConfirmed, now>>

\* the cancel button of a card, rendered when isUpcoming holds at render time
CanCancel(b) == ~dashLoading /\ dashPc = "idle" /\ IsUpcoming(b, now)

\* handleCancelBooking up to the await; window.confirm answers `confirmed`
handleCancelBooking(i, confirmed) ==
    /\ i \in 1..Len(upcomingBookings)
    /\ CanCancel(upcomingBookings[i])
    /\ dashConfirmed' = IF confirmed THEN "yes" ELSE "no"
    /\ IF confirmed
       THEN /\ dashTarget' = upcomingBookings[i].id
            /\ dashPc' = "updateSent"
       ELSE UNCHANGED <<dashTarget, dashPc>>
    /\ UNCHANGED <<storeVars, viewVars, adminVars, pageVars, dashUser,
                   upcomingBookings, pastBookings, dashLoading, dashAlert, now>>

\* mutant of the update: the .eq('id', bookingId) filter lost
CancelBooking_NoFilter(rows, bid) ==
    [i \in 1..Len(rows) |-> [rows[i] EXCEPT !.status = "cancelled"]]

\* mutant of the update: the row is deleted
CancelBooking_Delete(rows, bid) ==
    LET Kept(r) == r.id # bid IN SelectSeq(rows, Kept)

\* bookings.update({ status: 'cancelled' }).eq('id', bookingId)
CancelBooking(rows, bid) ==
    [i \in 1..Len(rows) |->
        IF rows[i].id = bid THEN [rows[i] EXCEPT !.status = "cancelled"]
        ELSE rows[i]]

\* the store executes the update, or fails it
StoreCancel ==
    /\ dashPc = "updateSent"
    /\ \/ /\ dbBookings' = CancelBooking(dbBookings, dashTarget)
          /\ dashPc' = "updateOk"
       \/ /\ dashPc' = "updateErr"
          /\ UNCHANGED dbBookings
    /\ UNCHANGED <<dbEvents, viewVars, adminVars, pageVars, dashUser,
                   upcomingBookings, pastBookings, dashLoading, dashTarget,
                   dashAlert, dashConfirmed, now>>

\* mutant of the cancel: the list is reloaded whether or not the update failed
handleCancelBookingDone_ReloadAlways ==
    /\ dashPc \in {"updateOk", "updateErr"}
    /\ dashPc' = "loadSent"
    /\ dashTarget' = 0
    /\ UNCHANGED <<storeVars, viewVars, adminVars, pageVars, dashUser,
                   upcomingBookings, pastBookings, dashLoading, dashAlert,
                   dashConfirmed, now>>

\* handleCancelBooking after the await: `await loadBookings()` up to its own
\* await, or the catch block with its alert
handleCancelBookingDone ==
    /\ dashPc \in {"updateOk", "updateErr"}
    /\ IF dashPc = "updateOk"
       THEN /\ dashPc' = IF dashUser = NoUser THEN "idle" ELSE "loadSent"
            /\ UNCHANGED dashAlert
       ELSE /\ dashAlert' = TRUE
            /\ dashPc' = "idle"
    /\ dashTarget' = 0
    /\ UNCHANGED <<storeVars, viewVars, adminVars, pageVars, dashUser,
                   upcomingBookings, pastBookings, dashLoading, dashConfirmed,
                   now>>

\* the user leaves the Dashboard and comes back to it: a new instance, with
\* the useState initial values
DashRemount ==
    /\ dashPc = "idle"
    /\ upcomingBookings' = <<>>
    /\ pastBookings' = <<>>
    /\ dashLoading' = TRUE
    /\ dashPc' = "mount"
    /\ UNCHANGED <<storeVars, viewVars, adminVars, pageVars, dashUser,
                   dashTarget, dashAlert, dashConfirmed, now>>

\* time passes
Tick ==
    /\ now < MaxTime
    /\ now' = now + 1
    /\ UNCHANGED <<storeVars, viewVars, adminVars, pageVars, dashUser,
                   upcomingBookings, pastBookings, dashLoading, dashPc,
                   dashTarget, dashAlert, dashConfirmed>>

\* ------------------------------------------------------ the event list
\* String.prototype.toLowerCase
ToLower(c) == IF c = "M" THEN "m" ELSE c

toLowerCase(str) == [i \in 1..Len(str) |-> ToLower(str[i])]

\* String.prototype.includes: q occurs in str as a substring
includes(str, q) ==
    \E k \in 0..(Len(str) - Len(q)) : SubSeq(str, k + 1, k + Len(q)) = q

\* a row of the events table with all its columns
ListedRow(eid) == EventRow(eid) @@ dbEventText[eid]

\* the rows of a set of ids as a sequence
RECURSIVE RowsOf(_)
RowsOf(ids) ==
    IF ids = {} THEN <<>>
    ELSE LET e == CHOOSE x \in ids : TRUE
         IN  <<ListedRow(e)>> \o RowsOf(ids \ {e})

\* .order('event_date', { ascending: true }) from date d on
RECURSIVE ByDate(_)
ByDate(d) ==
    IF d > MaxTime THEN <<>>
    ELSE RowsOf({e \in DOMAIN dbEvents : dbEvents[e].event_date = d})
            \o ByDate(d + 1)

\* events.select('*').gte('event_date', now).order('event_date')
SelectUpcomingEvents(t) == ByDate(t)

\* mutant of the search: the location is not searched
MatchesQuery_NoLocation(e, query) ==
    \/ includes(toLowerCase(e.title), query)
    \/ includes(toLowerCase(e.description), query)

\* the predicate of the first filter (lines 53-56); query is lower-cased
MatchesQuery(e, query) ==
    \/ includes(toLowerCase(e.title), query)
    \/ includes(toLowerCase(e.description), query)
    \/ includes(toLowerCase(e.location), query)

\* mutant of the filter: the first event that passes is left out
FilterEvents_SkipFirst(evs, q, cat, band) ==
    LET query == toLowerCase(q)
        Passes(e) == /\ q = <<>> \/ MatchesQuery(e, query)
                     /\ cat = "All" \/ e.category = cat
                     /\ band = "all" \/ (band = "free") = (e.price = 0)
        kept == SelectSeq(evs, Passes)
    IN  IF kept = <<>> THEN kept ELSE Tail(kept)

\* the body of the filter effect (lines 48-70)
FilterEvents(evs, q, cat, band) ==
    LET query == toLowerCase(q)
        ByQuery(e) == MatchesQuery(e, query)
        ByCategory(e) == e.category = cat
        Free(e) == e.price = 0
        Paid(e) == e.price > 0
        f1 == IF q # <<>> THEN SelectSeq(evs, ByQuery) ELSE evs
        f2 == IF cat # "All" THEN SelectSeq(f1, ByCategory) ELSE f1
    IN  IF band = "free" THEN SelectSeq(f2, Free)
        ELSE IF band = "paid" THEN SelectSeq(f2, Paid)
        ELSE f2

\* useEffect(() => { loadEvents(); }): up to the await
loadEvents ==
    /\ listPc = "mount"
    /\ listPc' = "loadSent"
    /\ UNCHANGED <<storeVars, viewVars, adminVars, dashVars, guardVars, orderVars, deskVars,
                   dbEventText, events,
                   filteredEvents, listLoading, searchQuery, selectedCategory,
                   priceFilter>>

\* loadEvents after the await: try / catch / finally, and the filter effect
\* that the new events trigger
loadEventsDone ==
    /\ listPc = "loadSent"
    /\ \E ok \in BOOLEAN :
          events' = IF ok THEN SelectUpcomingEvents(now) ELSE events
    /\ listLoading' = FALSE
    /\ filteredEvents' =
          FilterEvents(events', searchQuery, selectedCategory, priceFilter)
    /\ listPc' = "idle"
    /\ UNCHANGED <<storeVars, viewVars, adminVars, dashVars, guardVars, orderVars, deskVars,
                   dbEventText,
                   searchQuery, selectedCategory, priceFilter>>

\* the search box, with the filter effect its change triggers
SetSearchQuery(q) ==
    /\ ~listLoading
    /\ searchQuery' = q
    /\ filteredEvents' = FilterEvents(events, q, selectedCategory, priceFilter)
    /\ UNCHANGED <<storeVars, viewVars, adminVars, dashVars, guardVars, orderVars, deskVars,
                   dbEventText, events,
                   listLoading, selectedCategory, priceFilter, listPc>>

\* a category button, with the filter effect
SetSelectedCategory(cat) ==
    /\ ~listLoading
    /\ selectedCategory' = cat
    /\ filteredEvents' = FilterEvents(events, searchQuery, cat, priceFilter)
    /\ UNCHANGED <<storeVars, viewVars, adminVars, dashVars, guardVars, orderVars, deskVars,
                   dbEventText, events,
                   listLoading, searchQuery, priceFilter, listPc>>

\* a price button, with the filter effect
SetPriceFilter(band) ==
    /\ ~listLoading
    /\ priceFilter' = band
    /\ filteredEvents' = FilterEvents(events, searchQuery, selectedCategory, band)
    /\ UNCHANGED <<storeVars, viewVars, adminVars, dashVars, guardVars, orderVars, deskVars,
                   dbEventText, events,
                   listLoading, searchQuery, selectedCategory, listPc>>

\* ------------------------------------------------------------ the routes
\* what a route element renders: a page, the spinner, or <Navigate to=...>
Page(name) == [kind |-> "page", to |-> name]
Spinner == [kind |-> "spinner", to |-> ""]
NavigateTo(path) == [kind |-> "navigate", to |-> path]

\* mutant of the guard: the admin requirement is not looked at
ProtectedRoute_NoAdminCheck(children, requireAdmin, u, admin, ld) ==
    IF ld THEN Spinner
    ELSE IF u = NoUser THEN NavigateTo("/login")
    ELSE children

\* ProtectedRoute({ children, requireAdmin }) with useAuth() = (u, admin, ld)
ProtectedRoute(children, requireAdmin, u, admin, ld) ==
    IF ld THEN Spinner
    ELSE IF u = NoUser THEN NavigateTo("/login")
    ELSE IF requireAdmin /\ ~admin THEN NavigateTo("/events")
    ELSE children

\* the element of the route matching a path (App's <Routes>)
RouteElement(path, u, admin, ld) ==
    CASE path = "/login" -> Page("Login")
      [] path = "/signup" -> Page("Signup")
      [] path = "/" -> NavigateTo("/events")
      [] path = "/events" -> Page("Events")
      [] path = "/events/:id" -> Page("EventDetails")
      [] path = "/dashboard" ->
            ProtectedRoute(Page("Dashboard"), FALSE, u, admin, ld)
      [] path = "/admin" -> ProtectedRoute(Page("Admin"), TRUE, u, admin, ld)

\* the path the router settles at: <Navigate replace> is followed
RECURSIVE Settle(_, _, _, _)
Settle(path, u, admin, ld) ==
    LET el == RouteElement(path, u, admin, ld)
    IN  IF el.kind = "navigate" THEN Settle(el.to, u, admin, ld) ELSE path

\* a render of every tab under the auth values (u, admin, ld)
Render(paths, u, admin, ld) ==
    /\ route' = [t \in Tabs |-> Settle(paths[t], u, admin, ld)]
    /\ shown' = [t \in Tabs |-> RouteElement(route'[t], u, admin, ld)]

\* the user opens a path in a tab (a link, the address bar)
GoTo(t, path) ==
    /\ requested' = [requested EXCEPT ![t] = path]
    /\ Render([route EXCEPT ![t] = path], authUser, isAdmin, authLoading)
    /\ UNCHANGED <<storeVars, viewVars, adminVars, dashVars, listVars, orderVars, deskVars,
                   authLoading, authUser, isAdmin>>

\* the auth context finishes loading the session and the profile's role
AuthResolved(u, admin) ==
    /\ authLoading
    /\ authLoading' = FALSE
    /\ authUser' = u
    /\ isAdmin' = admin
    /\ Render(route, u, admin, FALSE)
    /\ UNCHANGED <<storeVars, viewVars, adminVars, dashVars, listVars, orderVars, deskVars,
                   requested>>

\* the session changes: sign-in, sign-out, another role
AuthChanged(u, admin) ==
    /\ ~authLoading
    /\ authUser' = u
    /\ isAdmin' = admin
    /\ Render(route, u, admin, FALSE)
    /\ UNCHANGED <<storeVars, viewVars, adminVars, dashVars, listVars, orderVars, deskVars,
                   authLoading, requested>>

\* ------------------------------------------------------- initial states
\* the events table before any client acts: a paid event e1 with any number
\* of seats left and a free event e2 with all of them left
InitStore ==
    /\ \E s \in Seats :
          dbEvents = [e \in EventIds |->
                        [price |-> IF e = "e1" THEN 25 ELSE 0,
                         capacity |-> MaxSeats,
                         available_seats |-> IF e = "e1" THEN s ELSE MaxSeats,
                         event_date |-> 1]]
    /\ dbBookings = <<>>

\* a freshly mounted EventDetails: the useState initial values
InitView(vs) ==
    /\ id \in [Views -> RouteIds]
    /\ user \in [Views -> Users \cup {NoUser}]
    /\ \A v \in Views \ vs : id[v] = NoId /\ user[v] = NoUser
    /\ mounted = [v \in Views |-> v \in vs]
    /\ location = [v \in Views |-> "/events/:id"]
    /\ event = [v \in Views |-> NullEvent]
    /\ loading = [v \in Views |-> TRUE]
    /\ showBookingModal = [v \in Views |-> FALSE]
    /\ numTickets = [v \in Views |-> 1]
    /\ bookingLoading = [v \in Views |-> FALSE]
    /\ bookingError = [v \in Views |-> MsgNone]
    /\ bookingSuccess = [v \in Views |-> FALSE]
    /\ redirectTimerRef = [v \in Views |-> "null"]
    /\ pc = [v \in Views |-> "mount"]
    /\ req = [v \in Views |-> NoReq]

\* the Admin console before it is opened
InitAdmin ==
    /\ adminEvents = NoRows
    /\ adminLoading = TRUE
    /\ eventModal = NoModal
    /\ saving = FALSE
    /\ adminPc = "mount"
    /\ saveReq = NoModal
    /\ adminToast = NoToast
    /\ toastTimers = 0
    /\ toastAhead = 0

\* a Dashboard of user u about to mount: the useState initial values
InitDashOf(u) ==
    /\ dashUser = u
    /\ upcomingBookings = <<>>
    /\ pastBookings = <<>>
    /\ dashLoading = TRUE
    /\ dashPc = "mount"
    /\ dashTarget = 0
    /\ dashAlert = FALSE
    /\ dashConfirmed = "none"
    /\ now = 0

\* the Dashboard before it is opened
InitDash == InitDashOf(NoUser)

\* the Events page before it is opened: the useState initial values
InitList ==
    /\ events = <<>>
    /\ filteredEvents = <<>>
    /\ listLoading = TRUE
    /\ searchQuery = <<>>
    /\ selectedCategory = "All"
    /\ priceFilter = "all"
    /\ listPc = "mount"

\* the text columns of the two events
PlainText ==
    [e \in EventIds |-> [title |-> <<"j">>, description |-> <<"j">>,
                         location |-> <<"M", "j">>, category |-> "Music"]]

\* the router of every tab at the event list, the session still loading
InitGuard ==
    /\ authLoading = TRUE
    /\ authUser = NoUser
    /\ isAdmin = FALSE
    /\ requested = [t \in Tabs |-> "/events"]
    /\ route = [t \in Tabs |-> "/events"]
    /\ shown = [t \in Tabs |-> Page("Events")]

\* the Admin console's orders before it is opened
InitOrders ==
    /\ orders = <<>>
    /\ orderPc = "idle"
    /\ orderReq = [id |-> "null", status |-> "none"]

\* an orders table without rows
NoOrders ==
    [o \in {} |-> [status |-> "none", total_amount |-> 0, event_id |-> "null"]]

\* a profiles table without rows
NoProfiles == [u \in {} |-> [role |-> "user"]]

\* the Admin console's users and its role and delete handlers before it is
\* opened
InitDesk ==
    /\ users = <<>>
    /\ rolePc = "idle"
    /\ roleReq = [id |-> "null", next |-> "none"]
    /\ delPc = "idle"
    /\ delReq = "null"
    /\ delConfirmed = "none"

\* every event published
AllPublished == [e \in EventIds |-> "published"]

\* the pages that a specification leaves closed
InitPages ==
    /\ dbEventText = PlainText /\ InitList /\ InitGuard
    /\ dbOrders = NoOrders /\ InitOrders
    /\ dbEventStatus = AllPublished /\ dbProfiles = NoProfiles /\ InitDesk

Init == InitStore /\ InitView(Views) /\ InitAdmin /\ InitDash /\ InitPages

\* ------------------------------------------------------ the booking views
ViewNext(v) ==
    \/ LoadEvent(v)
    \/ LoadEventDone(v)
    \/ OpenModal(v)
    \/ \E x \in TicketInputs : SetNumTickets(v, x)
    \/ closeModal(v)
    \/ handleBooking(v)
    \/ StoreInsert(v)
    \/ handleBookingDone(v)
    \/ RedirectFire(v)
    \/ Leave(v)

Next == \E v \in Views : ViewNext(v)

Spec == Init /\ [][Next]_vars

\* the views of FairSpec: a single EventDetails, the other never mounted
InitOne ==
    InitStore /\ InitView({"v1"}) /\ InitAdmin /\ InitDash /\ InitPages

\* a timer that is not cleared fires: setTimeout runs its callback
FairSpec == InitOne /\ [][Next]_vars /\ \A v \in Views : WF_vars(RedirectFire(v))

\* A signed-in user's booking view of an event with all seats left, next to
\* an Admin console on which prices of existing events are edited.
InitStale ==
    /\ InitOne
    /\ id["v1"] \in EventIds /\ user["v1"] = "u1"
    /\ dbEvents["e1"].available_seats = MaxSeats

NextStale ==
    \/ ViewNext("v1")
    \/ fetchAll
    \/ fetchAllDone
    \/ \E e \in EventIds : OpenEditModal(e)
    \/ \E p \in Prices : EditPrice(p)
    \/ CloseEventModal
    \/ saveEvent
    \/ StoreSave
    \/ saveEventDone
    \/ ToastTimeout

SpecStale == InitStale /\ [][NextStale]_vars

\* ------------------------------------------------- the Dashboard's runs
\* the bookings the workflow can have written: one ticket each, at the
\* event's price, confirmed or since cancelled
BookingKinds ==
    [event_id : EventIds, user_id : Users, status : {"confirmed", "cancelled"}]

StoredBookings(n, f) ==
    [i \in 1..n |->
        [id |-> i, event_id |-> f[i].event_id, user_id |-> f[i].user_id,
         num_tickets |-> 1, total_price |-> dbEvents[f[i].event_id].price,
         status |-> f[i].status]]

\* a Dashboard about to mount over a store with up to MaxBookings bookings;
\* e1 takes place at any time, e2 at the end of time
InitDashboard ==
    /\ \E d \in Times :
          dbEvents = [e \in EventIds |->
                        [price |-> IF e = "e1" THEN 25 ELSE 0,
                         capacity |-> MaxSeats,
                         available_seats |-> 1,
                         event_date |-> IF e = "e1" THEN d ELSE MaxTime]]
    /\ \E n \in 0..MaxBookings : \E f \in [1..n -> BookingKinds] :
          dbBookings = StoredBookings(n, f)
    /\ InitView({})
    /\ InitAdmin
    /\ InitPages
    /\ dashUser \in Users \cup {NoUser}
    /\ upcomingBookings = <<>>
    /\ pastBookings = <<>>
    /\ dashLoading = TRUE
    /\ dashPc = "mount"
    /\ dashTarget = 0
    /\ dashAlert = FALSE
    /\ dashConfirmed = "none"
    /\ now = 0

NextDash ==
    \/ DashMount
    \/ loadBookingsDone
    \/ \E i \in 1..MaxBookings, c \in BOOLEAN : handleCancelBooking(i, c)
    \/ StoreCancel
    \/ handleCancelBookingDone
    \/ Tick

SpecDash == InitDashboard /\ [][NextDash]_vars

\* ------------------------------------------- booking and cancelling
\* user u1 books on two EventDetails views of event e1 and cancels on the
\* Dashboard
InitLife ==
    /\ InitStore /\ dbEvents["e1"].available_seats = MaxSeats
    /\ InitView(Views)
    /\ \A v \in Views : id[v] = "e1" /\ user[v] = "u1"
    /\ InitAdmin
    /\ InitPages
    /\ InitDashOf("u1")

NextLife ==
    \/ Next
    \/ DashMount
    \/ loadBookingsDone
    \/ \E i \in 1..MaxBookings, c \in BOOLEAN : handleCancelBooking(i, c)
    \/ StoreCancel
    \/ handleCancelBookingDone
    \/ DashRemount

SpecLife == InitLife /\ [][NextLife]_vars

\* --------------------------------------------------- the event list's runs
\* an Events page about to mount over an events table in which the texts
\* and the category of e1 and the location of e2 vary; e1 (paid) takes place
\* at time 1 and e2 (free) at time 2
InitEvents ==
    /\ dbEvents = [e \in EventIds |->
                     [price |-> IF e = "e1" THEN 25 ELSE 0,
                      capacity |-> MaxSeats,
                      available_seats |-> MaxSeats,
                      event_date |-> IF e = "e1" THEN 1 ELSE 2]]
    /\ dbBookings = <<>>
    /\ dbEventText \in [EventIds -> [title : FieldTexts, description : FieldTexts,
                                      location : FieldTexts,
                                      category : EventCategories]]
    /\ dbEventText["e2"].title = <<"j">>
    /\ dbEventText["e2"].description = <<"j">>
    /\ dbEventText["e2"].category = "Sports"
    /\ InitView({})
    /\ InitAdmin
    /\ InitDash
    /\ InitList
    /\ InitGuard
    /\ dbOrders = NoOrders /\ InitOrders
    /\ dbEventStatus = AllPublished /\ dbProfiles = NoProfiles /\ InitDesk

NextEvents ==
    \/ loadEvents
    \/ loadEventsDone
    \/ \E q \in Queries : SetSearchQuery(q)
    \/ \E cat \in CategoryChoices : SetSelectedCategory(cat)
    \/ \E band \in PriceChoices : SetPriceFilter(band)
    \/ Tick

SpecEvents == InitEvents /\ [][NextEvents]_vars

\* ---------------------------------------------- the Admin console's runs
\* an Admin console on which capacities of events are edited and events
\* are created
InitConsole ==
    /\ InitStore /\ dbEvents["e1"].available_seats = MaxSeats
    /\ InitView({}) /\ InitAdmin /\ InitDash /\ InitPages

NextConsole ==
    \/ fetchAll
    \/ fetchAllDone
    \/ \E e \in EventIds \cup NewEventIds : OpenEditModal(e)
    \/ OpenNewModal
    \/ \E c \in Seats : EditCapacity(c)
    \/ CloseEventModal
    \/ saveEvent
    \/ StoreSave
    \/ saveEventDone
    \/ ToastTimeout

SpecConsole == InitConsole /\ [][NextConsole]_vars

\* an Admin console over an orders table of two orders of any status
InitOrderDesk ==
    /\ InitStore /\ dbEvents["e1"].available_seats = MaxSeats
    /\ InitView({}) /\ InitAdmin /\ InitDash
    /\ dbEventText = PlainText /\ InitList /\ InitGuard
    /\ dbOrders \in [OrderIds -> [status : OrderStatuses, total_amount : {25},
                                   event_id : {"e1"}]]
    /\ InitOrders
    /\ dbEventStatus = AllPublished /\ dbProfiles = NoProfiles /\ InitDesk

NextOrderDesk ==
    \/ fetchAll
    \/ fetchAllDone
    \/ \E i \in 1..Len(OrderSeq), status \in OrderStatuses :
          updateOrderStatus(i, status)
    \/ StoreOrderUpdate
    \/ updateOrderStatusDone
    \/ ToastTimeout

SpecOrderDesk == InitOrderDesk /\ [][NextOrderDesk]_vars

\* an Admin console on which events are deleted, over a store in which
\* bookings of user u1 and orders refer to the events
InitDelete ==
    /\ dbEvents = [e \in EventIds |->
                     [price |-> IF e = "e1" THEN 25 ELSE 0,
                      capacity |-> MaxSeats,
                      available_seats |-> MaxSeats,
                      event_date |-> 1]]
    /\ \E n \in 0..MaxBookings : \E f \in [1..n -> BookingKinds] :
          /\ \A i \in 1..n : f[i].user_id = "u1"
          /\ dbBookings = StoredBookings(n, f)
    /\ InitView({}) /\ InitAdmin /\ InitDash
    /\ dbEventText = PlainText /\ InitList /\ InitGuard
    /\ dbOrders \in [OrderIds -> [status : {"pending"}, total_amount : {25},
                                   event_id : EventIds]]
    /\ InitOrders
    /\ dbEventStatus = AllPublished /\ dbProfiles = NoProfiles /\ InitDesk

NextDelete ==
    \/ fetchAll
    \/ fetchAllDone
    \/ \E e \in EventIds, c \in BOOLEAN : deleteEvent(e, c)
    \/ StoreDelete
    \/ deleteEventDone
    \/ ToastTimeout

SpecDelete == InitDelete /\ [][NextDelete]_vars

\* an Admin console on which events are created and their status edited.  The events table of database.types has no status column, so a
\* row may come without a status.
InitSave ==
    /\ InitStore /\ dbEvents["e1"].available_seats = MaxSeats
    /\ InitView({}) /\ InitAdmin /\ InitDash
    /\ dbEventText = PlainText /\ InitList /\ InitGuard
    /\ dbOrders = NoOrders /\ InitOrders
    /\ dbEventStatus \in [EventIds -> {"", "published"}]
    /\ dbEventStatus["e2"] = "published"
    /\ dbProfiles = NoProfiles /\ InitDesk

NextSave ==
    \/ fetchAll
    \/ fetchAllDone
    \/ \E e \in EventIds \cup NewEventIds : OpenEditModal(e)
    \/ OpenNewModal
    \/ \E st \in {"published", "active"} : EditStatus(st)
    \/ CloseEventModal
    \/ saveEvent
    \/ StoreSave
    \/ saveEventDone
    \/ ToastTimeout

SpecSave == InitSave /\ [][NextSave]_vars

\* an Admin console's overview over two orders of any status, one of them
\* with or without an amount, and two events, one of them of any status
InitOverview ==
    /\ InitStore /\ dbEvents["e1"].available_seats = MaxSeats
    /\ InitView({}) /\ InitAdmin /\ InitDash
    /\ dbEventText = PlainText /\ InitList /\ InitGuard
    /\ dbOrders \in [OrderIds -> [status : OrderStatuses,
                                   total_amount : {NullAmount, 25, 40},
                                   event_id : {"e1"}]]
    /\ dbOrders["o1"].total_amount # 40 /\ dbOrders["o2"].total_amount = 40
    /\ InitOrders
    /\ dbEventStatus \in [EventIds -> {"draft", "published", "active"}]
    /\ dbEventStatus["e2"] = "active"
    /\ dbProfiles = NoProfiles /\ InitDesk

NextOverview ==
    \/ fetchAll
    \/ fetchAllDone
    \/ \E i \in 1..Len(OrderSeq), status \in OrderStatuses :
          updateOrderStatus(i, status)
    \/ StoreOrderUpdate
    \/ updateOrderStatusDone
    \/ ToastTimeout

SpecOverview == InitOverview /\ [][NextOverview]_vars

\* the Admin console of admin u1 over a profiles table of two users
InitRoles ==
    /\ InitStore /\ dbEvents["e1"].available_seats = MaxSeats
    /\ InitView({}) /\ InitAdmin /\ InitDash
    /\ dbEventText = PlainText /\ InitList
    /\ authLoading = FALSE /\ authUser = "u1" /\ isAdmin = TRUE
    /\ requested = [t \in Tabs |-> "/admin"]
    /\ route = [t \in Tabs |-> "/admin"]
    /\ shown = [t \in Tabs |-> Page("Admin")]
    /\ dbOrders = NoOrders /\ InitOrders
    /\ dbEventStatus = AllPublished
    /\ dbProfiles \in [Users -> [role : Roles]]
    /\ dbProfiles[authUser].role = "admin"
    /\ InitDesk

NextRoles ==
    \/ fetchAll
    \/ fetchAllDone
    \/ \E i \in 1..Len(UserSeq) : toggleRole(i)
    \/ StoreRoleUpdate
    \/ toggleRoleDone
    \/ ToastTimeout

SpecRoles == InitRoles /\ [][NextRoles]_vars

\* an Admin console on which every kind of write is made, one write at a
\* time: roles toggled, events edited and deleted, orders confirmed
InitWrites ==
    /\ InitStore /\ dbEvents["e1"].available_seats = MaxSeats
    /\ InitView({}) /\ InitAdmin /\ InitDash
    /\ dbEventText = PlainText /\ InitList /\ InitGuard
    /\ dbOrders = [o \in OrderIds |-> [status |-> "pending", total_amount |-> 25,
                                       event_id |-> "e1"]]
    /\ InitOrders
    /\ dbEventStatus = AllPublished
    /\ dbProfiles = [u \in Users |-> [role |-> IF u = "u1" THEN "admin"
                                                           ELSE "user"]]
    /\ InitDesk

\* no write of the console is under way
NoWrite ==
    /\ rolePc = "idle" /\ orderPc = "idle" /\ delPc = "idle"
    /\ adminPc \notin {"saving", "saveOk", "saveErr"}

NextWrites ==
    \/ fetchAll
    \/ fetchAllDone
    \/ \E i \in 1..Len(UserSeq) : NoWrite /\ toggleRole(i)
    \/ StoreRoleUpdate
    \/ toggleRoleDone
    \/ \E e \in EventIds : OpenEditModal(e)
    \/ EditStatus("active")
    \/ NoWrite /\ saveEvent
    \/ StoreSave
    \/ saveEventDone
    \/ \E e \in EventIds, c \in BOOLEAN : NoWrite /\ deleteEvent(e, c)
    \/ StoreDelete
    \/ deleteEventDone
    \/ \E i \in 1..Len(OrderSeq) : NoWrite /\ updateOrderStatus(i, "confirmed")
    \/ StoreOrderUpdate
    \/ updateOrderStatusDone
    \/ ToastTimeout

SpecWrites == InitWrites /\ [][NextWrites]_vars

\* -------------------------------------------------- the pages' first loads
\* an event list, an EventDetails view and a Dashboard about to mount
InitLoad ==
    /\ InitStore /\ dbEvents["e1"].available_seats = MaxSeats
    /\ InitView({"v1"})
    /\ InitAdmin
    /\ \E u \in Users \cup {NoUser} : InitDashOf(u)
    /\ InitPages

NextLoad ==
    \/ loadEvents
    \/ loadEventsDone
    \/ \E v \in Views : LoadEvent(v)
    \/ \E v \in Views : LoadEventDone(v)
    \/ DashMount
    \/ loadBookingsDone

\* React runs the effects of a mounted component, and every request to the
\* backend is answered, with data or with an error
SpecLoad ==
    /\ InitLoad /\ [][NextLoad]_vars
    /\ WF_vars(loadEvents) /\ WF_vars(loadEventsDone)
    /\ \A v \in Views : WF_vars(LoadEvent(v)) /\ WF_vars(LoadEventDone(v))
    /\ WF_vars(DashMount) /\ WF_vars(loadBookingsDone)

\* ----------------------------------------------------- the routes' runs
\* the values the auth context can resolve to: nobody, or a user who is or
\* is not an admin
AuthValues == {<<NoUser, FALSE>>} \cup (Users \X BOOLEAN)

InitRoutes ==
    /\ InitStore /\ dbEvents["e1"].available_seats = MaxSeats
    /\ InitView({}) /\ InitAdmin /\ InitDash /\ InitPages

NextRoutes ==
    \/ \E t \in Tabs, path \in RoutePaths : GoTo(t, path)
    \/ \E a \in AuthValues : AuthResolved(a[1], a[2])
    \/ \E a \in AuthValues : AuthChanged(a[1], a[2])

SpecRoutes == InitRoutes /\ [][NextRoutes]_vars

\* ------------------------------------------------------------ properties
\* the step by which a view's insert request reaches the store and succeeds
InsertSucceeds(v) == pc[v] = "insertSent" /\ pc'[v] = "insertOk"

\* the step by which handleBooking issues the insert
InsertIssued(v) == pc[v] # "insertSent" /\ pc'[v] = "insertSent"

\* C1 (as amended): a Confirm by a signed-in user issues the insert if and
\* only if 1 <= t <= event.available_seats of the view's event, the payload's
\* total_price is event.price * t, and a booking row is created exactly when
\* the store accepts such an insert: the row is that payload.
C1_BookingIffInRange ==
    [][\A v \in Views :
         /\ (handleBooking(v) /\ user[v] # NoUser) =>
               /\ InsertIssued(v) <=>
                     (1 <= numTickets[v] /\ numTickets[v] <= event[v].available_seats)
               /\ InsertIssued(v) =>
                     /\ req'[v].num_tickets = numTickets[v]
                     /\ req'[v].total_price = event[v].price * numTickets[v]
         /\ InsertSucceeds(v) =>
               /\ Len(dbBookings') = Len(dbBookings) + 1
               /\ dbBookings'[Len(dbBookings')].num_tickets = req[v].num_tickets
               /\ dbBookings'[Len(dbBookings')].total_price = req[v].total_price
         /\ (pc[v] = "insertSent" /\ pc'[v] = "insertErr") => dbBookings' = dbBookings
      ]_vars

\* C1 witness: an insert for as many tickets as the event has seats succeeded
C1_Witness ==
    \E v \in Views :
        /\ pc[v] = "insertOk" /\ req[v].num_tickets = MaxSeats
        /\ dbBookings # <<>>
        /\ dbBookings[Len(dbBookings)].total_price = req[v].total_price

\* C1 as stated: whenever handleBooking completes for a ticket count in
\* range, the booking row has been created.
C1_Original ==
    [][\A v \in Views :
         (pc[v] \in {"insertOk", "insertErr"} /\ pc'[v] = "idle") =>
            \E i \in 1..Len(dbBookings) :
                /\ dbBookings[i].event_id = req[v].event_id
                /\ dbBookings[i].user_id = req[v].user_id
                /\ dbBookings[i].num_tickets = req[v].num_tickets
      ]_vars

\* the view offers the Confirm Booking button
CanConfirm(v) ==
    Rendered(v) /\ showBookingModal[v] /\ ~bookingSuccess[v] /\ ~bookingLoading[v]

\* C2: with available_seats = 1 and a confirmed booking of 1 ticket already
\* in the store for the event, a further Confirm for 1 ticket is accepted by
\* the view and its insert can be accepted by the store: nothing rejects it.
C2_SecondBookingAccepted ==
    \A v \in Views :
        /\ ( /\ CanConfirm(v) /\ user[v] # NoUser
             /\ numTickets[v] = 1 /\ event[v].available_seats = 1
             /\ ConfirmedTickets(event[v].id) >= 1 )
           => ENABLED (handleBooking(v) /\ pc'[v] = "insertSent")
        /\ ( /\ pc[v] = "insertSent" /\ req[v].num_tickets = 1
             /\ dbEvents[req[v].event_id].available_seats = 1
             /\ ConfirmedTickets(req[v].event_id) >= 1 )
           => ENABLED (StoreInsert(v) /\ pc'[v] = "insertOk")

\* C2 witness: an event with one seat has two confirmed tickets
C2_Witness ==
    \E e \in EventIds :
        /\ dbEvents[e].available_seats = 1
        /\ ConfirmedTickets(e) > dbEvents[e].available_seats

\* C3: no step of the booking workflow changes the events table, and the
\* only change of the bookings table is the append of one row.
C3_EventsNeverWritten ==
    [][ /\ dbEvents' = dbEvents
        /\ \/ dbBookings' = dbBookings
           \/ /\ Len(dbBookings') = Len(dbBookings) + 1
              /\ SubSeq(dbBookings', 1, Len(dbBookings)) = dbBookings
      ]_vars

\* C3 witness: a booking was written and another view shows a failed one
C3_Witness ==
    /\ Len(dbBookings) >= 1
    /\ \E v \in Views : bookingError[v] = MsgFailed /\ mounted[v]
    /\ \A e \in EventIds : ConfirmedTickets(e) <= dbEvents[e].available_seats

\* C4: the insert payload is built from the view (its user, its event, its
\* ticket count >= 1, event.price * count, status confirmed), the store
\* appends exactly that payload, and so every row has these fields.
C4_RowFields ==
    [][ /\ \A v \in Views :
             /\ InsertIssued(v) =>
                   /\ numTickets[v] >= 1
                   /\ req'[v] = [event_id |-> event[v].id, user_id |-> user[v],
                                 num_tickets |-> numTickets[v],
                                 total_price |-> event[v].price * numTickets[v],
                                 status |-> "confirmed"]
                   /\ event[v].id = id[v]
             /\ InsertSucceeds(v) =>
                   dbBookings' = Append(dbBookings,
                       [id |-> Len(dbBookings) + 1, event_id |-> req[v].event_id,
                        user_id |-> req[v].user_id,
                        num_tickets |-> req[v].num_tickets,
                        total_price |-> req[v].total_price,
                        status |-> req[v].status])
        /\ \A i \in 1..Len(dbBookings') :
             /\ dbBookings'[i].status = "confirmed"
             /\ dbBookings'[i].user_id \in Users
             /\ dbBookings'[i].event_id \in EventIds
             /\ dbBookings'[i].num_tickets >= 1
      ]_vars

\* C4 witness: price 25 and 1 ticket gave a confirmed row of total_price 25
C4_Witness ==
    \E i \in 1..Len(dbBookings) :
        /\ dbBookings[i].num_tickets = 1 /\ dbBookings[i].total_price = 25
        /\ dbBookings[i].status = "confirmed"
        /\ dbEvents[dbBookings[i].event_id].price = 25

\* C5: a Confirm with a ticket count below 1 or above event.available_seats
\* sets the error message and issues nothing: no insert call, bookingLoading
\* and bookingSuccess stay false, the bookings table is unchanged.
C5_OutOfRangeRejected ==
    [][\A v \in Views :
         ( /\ handleBooking(v) /\ user[v] # NoUser
           /\ (numTickets[v] < 1 \/ numTickets[v] > event[v].available_seats) )
         => /\ bookingError'[v] = MsgRange
            /\ pc'[v] = "idle" /\ req'[v] = NoReq
            /\ ~bookingLoading'[v] /\ ~bookingSuccess'[v]
            /\ dbBookings' = dbBookings
      ]_vars

\* C5 witness: both kinds of rejected count are on display
C5_Witness ==
    /\ \E v \in Views : /\ bookingError[v] = MsgRange /\ numTickets[v] < 1
    /\ \E v \in Views : /\ bookingError[v] = MsgRange
                         /\ numTickets[v] > event[v].available_seats

\* C6: a Confirm with no user signed in navigates to /login and does nothing
\* else (no validation message, no insert call); no insert request and no
\* booking row ever carries an absent user.
C6_SignedOutRedirects ==
    [][ /\ \A v \in Views :
             (handleBooking(v) /\ user[v] = NoUser)
             => /\ location'[v] = "/login"
                /\ pc'[v] = pc[v] /\ req'[v] = req[v]
                /\ bookingError'[v] # MsgRange
                /\ dbBookings' = dbBookings
        /\ \A v \in Views : pc'[v] = "insertSent" => req'[v].user_id # NoUser
        /\ \A i \in 1..Len(dbBookings') : dbBookings'[i].user_id # NoUser
      ]_vars

\* C6 witness: a signed-out view was sent to /login while another view booked
C6_Witness ==
    /\ \E v \in Views : user[v] = NoUser /\ location[v] = "/login"
    /\ dbBookings # <<>>

\* C7: only a successful insert arms the redirect timer, once, and a mounted
\* view then shows the confirmation; only the timer navigates to /dashboard;
\* a teardown while the timer is pending clears it, and a cleared timer stays
\* cleared and never navigates; a pending timer is eventually cleared or
\* the view is at /dashboard.
C7_RedirectTimer ==
    /\ [][\A v \in Views :
            /\ (redirectTimerRef[v] # "pending" /\ redirectTimerRef'[v] = "pending")
                 => /\ pc[v] = "insertOk" /\ redirectTimerRef[v] = "null"
                    /\ mounted[v] => bookingSuccess'[v]
            /\ (location[v] # "/dashboard" /\ location'[v] = "/dashboard")
                 => redirectTimerRef[v] = "pending" /\ redirectTimerRef'[v] = "fired"
            /\ ( /\ mounted[v] /\ ~mounted'[v] /\ redirectTimerRef[v] = "pending"
                 /\ location'[v] # "/dashboard" )
                 => redirectTimerRef'[v] = "cleared"
            /\ redirectTimerRef[v] = "cleared"
                 => redirectTimerRef'[v] = "cleared" /\ location'[v] # "/dashboard"
         ]_vars
    /\ \A v \in Views :
          (redirectTimerRef[v] = "pending")
             ~> (location[v] = "/dashboard" \/ redirectTimerRef[v] = "cleared")

\* C7 witness: a view was torn down while its redirect timer was pending
C7_Witness ==
    \E v \in Views :
        redirectTimerRef[v] = "cleared" /\ ~mounted[v] /\ dbBookings # <<>>

\* C8: when the insert fails the handler ends: a mounted view shows the
\* generic message with bookingSuccess and bookingLoading false, no timer is
\* armed, nothing is written, and no insert is issued other than by a
\* Confirm click on an idle view.
C8_InsertFailure ==
    [][\A v \in Views :
         /\ (pc[v] = "insertErr" /\ pc'[v] # "insertErr")
              => /\ pc'[v] = "idle"
                 /\ redirectTimerRef'[v] = redirectTimerRef[v]
                 /\ dbBookings' = dbBookings
                 /\ mounted[v] => /\ bookingError'[v] = MsgFailed
                                  /\ ~bookingSuccess'[v]
                                  /\ ~bookingLoading'[v]
         /\ InsertIssued(v) => pc[v] = "idle" /\ CanConfirm(v)
      ]_vars

\* C8 witness: a mounted view shows the failure message and nothing was written
C8_Witness ==
    \E v \in Views :
        /\ mounted[v] /\ bookingError[v] = MsgFailed /\ pc[v] = "idle"
        /\ ~bookingLoading[v] /\ redirectTimerRef[v] = "null"
        /\ dbBookings = <<>>

\* C9 as stated: the row's total_price is its ticket count times the price
\* the events table holds when the row is written.
C9_PriceAtWriteTime ==
    [][\A v \in Views :
         InsertSucceeds(v) =>
            dbBookings'[Len(dbBookings')].total_price =
               dbBookings'[Len(dbBookings')].num_tickets
                  * dbEvents[dbBookings'[Len(dbBookings')].event_id].price
      ]_vars

\* C10: the store's step of a cancel changes nothing but the status of the
\* booking with the given id, which becomes cancelled: its other fields, the
\* other bookings and the events table are as before; no other step of the
\* Dashboard writes to the store.
C10_CancelFrame ==
    [][ /\ dbEvents' = dbEvents
        /\ Len(dbBookings') = Len(dbBookings)
        /\ \A i \in 1..Len(dbBookings) :
             IF dashPc = "updateSent" /\ dashPc' = "updateOk"
                /\ dbBookings[i].id = dashTarget
             THEN dbBookings'[i] = [dbBookings[i] EXCEPT !.status = "cancelled"]
             ELSE dbBookings'[i] = dbBookings[i]
      ]_vars

\* C10 witness: a confirmed booking was cancelled next to another booking of
\* the same user and event that is still confirmed
C10_Witness ==
    /\ dashPc = "updateOk"
    /\ \E i, j \in 1..Len(dbBookings) :
          /\ i # j
          /\ dbBookings[i].id = dashTarget /\ dbBookings[i].status = "cancelled"
          /\ dbBookings[j].status = "confirmed"
          /\ dbBookings[j].user_id = dbBookings[i].user_id
          /\ dbBookings[j].event_id = dbBookings[i].event_id
          /\ \E k \in 1..Len(upcomingBookings) : upcomingBookings[k].id = dashTarget

\* the Dashboard's lists
dashLists == <<upcomingBookings, pastBookings>>

C12_BookingLifecycle ==
    [][ /\ Len(dbBookings') \in {Len(dbBookings), Len(dbBookings) + 1}
        /\ \A i \in 1..Len(dbBookings) :
             \/ dbBookings'[i] = dbBookings[i]
             \/ dbBookings'[i] = [dbBookings[i] EXCEPT !.status = "cancelled"]
        /\ \A i \in 1..Len(dbBookings) :
             dbBookings[i].status = "cancelled" => dbBookings'[i].status = "cancelled"
        /\ Len(dbBookings') > Len(dbBookings)
             => dbBookings'[Len(dbBookings')].status = "confirmed"
      ]_vars

\* C12 witness: the first booking was cancelled on the Dashboard and a
\* booking made after it is confirmed
C12_Witness ==
    /\ Len(dbBookings) = 2
    /\ dbBookings[1].status = "cancelled"
    /\ dbBookings[2].status = "confirmed"
    /\ dashPc = "idle" /\ ~dashLoading
    /\ \E k \in 1..Len(pastBookings) : pastBookings[k].id = 1
    /\ \E k \in 1..Len(upcomingBookings) : upcomingBookings[k].id = 2

\* the step by which a load of the Dashboard answers and sets the lists
LoadAnswered ==
    dashPc = "loadSent" /\ dashPc' = "idle" /\ dashLists' # dashLists

\* the user's bookings in the store, as ids
OwnIds == {i \in 1..Len(dbBookings) : dbBookings[i].user_id = dashUser}

\* the ids of a list of bookings
IdsOf(list) == {list[k].id : k \in 1..Len(list)}

\* a list of bookings is in creation order, latest first
LatestFirst(list) ==
    \A j, k \in 1..Len(list) : j < k => list[j].id > list[k].id

\* C13: when a load sets the lists, a booking of the user is in the upcoming
\* list iff its event's date is at or after the clock of that moment and its
\* status is confirmed, and is in the other list otherwise; each list holds
\* the rows as stored, joined with their event, latest first.
C13_PartitionRule ==
    [][ LoadAnswered =>
          /\ \A i \in OwnIds :
                LET up == /\ dbEvents[dbBookings[i].event_id].event_date >= now
                          /\ dbBookings[i].status = "confirmed"
                IN  /\ i \in IdsOf(upcomingBookings') <=> up
                    /\ i \in IdsOf(pastBookings') <=> ~up
          /\ \A k \in 1..Len(upcomingBookings') :
                upcomingBookings'[k] =
                   dbBookings[upcomingBookings'[k].id]
                      @@ [event |-> EventRow(dbBookings[upcomingBookings'[k].id].event_id)]
          /\ \A k \in 1..Len(pastBookings') :
                pastBookings'[k] =
                   dbBookings[pastBookings'[k].id]
                      @@ [event |-> EventRow(dbBookings[pastBookings'[k].id].event_id)]
          /\ LatestFirst(upcomingBookings') /\ LatestFirst(pastBookings')
      ]_vars

\* C13 witness: at time 0 the lists hold a confirmed booking of an event
\* dated 0 as upcoming and a cancelled booking of a later event as past
C13_Witness ==
    /\ now = 0 /\ dashPc = "idle"
    /\ \E k \in 1..Len(upcomingBookings) :
          /\ upcomingBookings[k].event.event_date = 0
          /\ upcomingBookings[k].status = "confirmed"
    /\ \E k \in 1..Len(pastBookings) :
          /\ pastBookings[k].event.event_date > 0
          /\ pastBookings[k].status = "cancelled"

\* C14: when a load sets the lists, every booking of the user is in exactly
\* one of them, once, and the lists hold nothing but the user's bookings.
C14_TotalDisjointSplit ==
    [][ LoadAnswered =>
          /\ IdsOf(upcomingBookings') \cup IdsOf(pastBookings') = OwnIds
          /\ IdsOf(upcomingBookings') \cap IdsOf(pastBookings') = {}
          /\ Len(upcomingBookings') + Len(pastBookings') = Cardinality(OwnIds)
      ]_vars

\* C14 witness: both lists are filled, the past one by a confirmed booking
\* of an event that is over, and the store holds no other booking
C14_Witness ==
    /\ dashPc = "idle" /\ ~dashLoading
    /\ Len(upcomingBookings) = 1 /\ Len(pastBookings) = 1
    /\ pastBookings[1].status = "confirmed"
    /\ pastBookings[1].event.event_date < now
    /\ Len(dbBookings) = 2

\* C15: the filtered list is the loaded events, in their order, that pass
\* all three of: the query is empty or its lower-case form is a substring of
\* the lower-case title, description or location; the category is All or the
\* event's own; the price band is all, or free with price 0, or paid with a
\* price above 0.
C15_FilteredList ==
    LET q == toLowerCase(searchQuery)
        Passes(e) ==
            /\ \/ searchQuery = <<>>
               \/ includes(toLowerCase(e.title), q)
               \/ includes(toLowerCase(e.description), q)
               \/ includes(toLowerCase(e.location), q)
            /\ selectedCategory = "All" \/ e.category = selectedCategory
            /\ \/ priceFilter = "all"
               \/ priceFilter = "free" /\ e.price = 0
               \/ priceFilter = "paid" /\ e.price > 0
    IN  filteredEvents = SelectSeq(events, Passes)

\* C15 witness: the query "m" lists an event whose title and description
\* are "j" and whose location is "Mj", and not the other event
C15_Witness ==
    /\ searchQuery = <<"m">> /\ Len(events) = 2 /\ Len(filteredEvents) = 1
    /\ filteredEvents[1].title = <<"j">>
    /\ filteredEvents[1].description = <<"j">>
    /\ filteredEvents[1].location = <<"M", "j">>

\* C16: the filter applied to the filtered list, with the query, category
\* and price band that produced it, gives the filtered list again.
C16_FilterIdempotent ==
    FilterEvents(filteredEvents, searchQuery, selectedCategory, priceFilter)
       = filteredEvents

\* C16 witness: with all three filters set, one of two events is listed
C16_Witness ==
    /\ searchQuery # <<>> /\ selectedCategory # "All" /\ priceFilter # "all"
    /\ Len(events) = 2 /\ Len(filteredEvents) = 1

\* the protected pages are on show only to those they are for
GuardedPages ==
    \A t \in Tabs :
        /\ shown[t] \in {Page("Dashboard"), Page("Admin")}
              => ~authLoading /\ authUser # NoUser
        /\ shown[t] = Page("Admin") => isAdmin
        /\ shown[t] = Page("Dashboard") => route[t] = "/dashboard"
        /\ shown[t] = Page("Admin") => route[t] = "/admin"
        /\ shown[t].kind # "navigate"

\* C17: the Dashboard and the Admin console are rendered only with loading
\* false and a user signed in, the Admin console only for an admin; opening
\* /dashboard or /admin with loading false and nobody signed in ends at
\* /login, opening /admin as a signed-in non-admin ends at /events; while
\* loading is true the tab stays at the protected path and shows the
\* spinner; /events and /events/:id render their page whoever asks.
C17_RouteGuards ==
    /\ []GuardedPages
    /\ [][\A t \in Tabs :
            /\ ( /\ \E path \in {"/dashboard", "/admin"} : GoTo(t, path)
                 /\ ~authLoading /\ authUser = NoUser )
                 => route'[t] = "/login" /\ shown'[t] = Page("Login")
            /\ (GoTo(t, "/admin") /\ ~authLoading /\ authUser # NoUser /\ ~isAdmin)
                 => route'[t] = "/events" /\ shown'[t] = Page("Events")
            /\ (GoTo(t, "/admin") /\ ~authLoading /\ authUser # NoUser /\ isAdmin)
                 => route'[t] = "/admin" /\ shown'[t] = Page("Admin")
            /\ (GoTo(t, "/dashboard") /\ ~authLoading /\ authUser # NoUser)
                 => route'[t] = "/dashboard" /\ shown'[t] = Page("Dashboard")
            /\ (authLoading /\ \E path \in {"/dashboard", "/admin"} :
                                  GoTo(t, path) /\ route'[t] = path)
                 => shown'[t] = Spinner
            /\ (authLoading' /\ route'[t] \in {"/dashboard", "/admin"})
                 => shown'[t] = Spinner
            /\ GoTo(t, "/events")
                 => route'[t] = "/events" /\ shown'[t] = Page("Events")
            /\ GoTo(t, "/events/:id")
                 => route'[t] = "/events/:id" /\ shown'[t] = Page("EventDetails")
         ]_vars

\* C17 witness: a signed-in non-admin has the Dashboard in one tab and was
\* sent from /admin to the event list in the other
C17_Witness ==
    /\ ~authLoading /\ authUser # NoUser /\ ~isAdmin
    /\ shown["t1"] = Page("Dashboard")
    /\ requested["t2"] = "/admin" /\ route["t2"] = "/events"

\* the step by which a view's loadEvent ends although the read failed: the
\* events table holds the row asked for and the view got none
LoadEventFailed(v) ==
    /\ pc[v] = "loadSent" /\ pc'[v] = "idle"
    /\ id[v] \in DOMAIN dbEvents /\ event'[v] = NullEvent

\* C18 as stated, for the event-detail view: a failed read or write ends its
\* handler, without another request, with a failure message on the mounted
\* view.
C18_FailuresShown ==
    [][\A v \in Views :
         /\ (pc[v] = "insertErr" /\ pc'[v] # "insertErr" /\ mounted[v])
              => pc'[v] = "idle" /\ bookingError'[v] = MsgFailed
         /\ (LoadEventFailed(v) /\ mounted[v])
              => bookingError'[v] # MsgNone
      ]_vars

\* C19 as stated, for the rows the events table starts with (a created
\* row's available_seats is the store's choice): in every reachable state
\* 0 <= available_seats <= capacity.
C19_SeatsWithinCapacity ==
    \A e \in EventIds :
        /\ 0 <= dbEvents[e].available_seats
        /\ dbEvents[e].available_seats <= dbEvents[e].capacity

\* every order on show can be given every status other than the one on show
AnyStatusOffered ==
    (~adminLoading /\ orderPc = "idle") =>
        \A i \in 1..Len(orders) : \A status \in OrderStatuses \ {orders[i].status} :
            ENABLED (updateOrderStatus(i, status)
                        /\ orderReq' = [id |-> orders[i].id, status |-> status])

\* C20: every order on show can be sent to each of the four statuses,
\* whatever its status; the store's step sets the asked status on the row of
\* the asked id, whatever status the row had, and changes no other row; on
\* success the local list changes in the status of that order alone, and on
\* failure not at all.
C20_OrderStatusFree ==
    /\ []AnyStatusOffered
    /\ [][  /\ (orderPc = "updateSent" /\ orderPc' = "updateOk")
                => /\ dbOrders'[orderReq.id].status = orderReq.status
                   /\ \A o \in OrderIds :
                         /\ (o # orderReq.id => dbOrders'[o] = dbOrders[o])
                         /\ dbOrders'[o].total_amount = dbOrders[o].total_amount
            /\ (orderPc = "updateOk" /\ orderPc' = "idle")
                => /\ Len(orders') = Len(orders)
                   /\ \A i \in 1..Len(orders) :
                         IF orders[i].id = orderReq.id
                         THEN orders'[i] = [orders[i] EXCEPT !.status = orderReq.status]
                         ELSE orders'[i] = orders[i]
            /\ (orderPc = "updateErr" /\ orderPc' = "idle")
                => orders' = orders /\ dbOrders' = dbOrders
         ]_vars

\* C20 witness: the store took an order out of cancelled to pending, while
\* the other order is completed and the list still shows the old statuses
C20_Witness ==
    /\ orderPc = "updateOk" /\ orderReq.status = "pending"
    /\ dbOrders[orderReq.id].status = "pending"
    /\ \E i, j \in 1..Len(orders) :
          /\ orders[i].id = orderReq.id /\ orders[i].status = "cancelled"
          /\ i # j /\ orders[j].status = "completed"
          /\ dbOrders[orders[j].id].status = "completed"

\* C21: a Delete click asks for confirmation first; a declined one issues no
\* delete and changes nothing; a delete is issued only after a confirmation,
\* whether or not bookings or orders refer to the event; when the store
\* executes it the event's row is gone while every booking and every order
\* stays as it was.
C21_HardDelete ==
    /\ [][  /\ (delConfirmed' = "no" /\ delConfirmed # "no")
               => UNCHANGED <<storeVars, viewVars, adminVars, dashVars, listVars,
                              guardVars, orderVars, dbEventStatus, dbProfiles,
                              users, rolePc, roleReq, delPc, delReq>>
            /\ (delPc' = "deleteSent" /\ delPc # "deleteSent")
               => (delConfirmed' = "yes" /\ UNCHANGED storeVars)
            /\ (dbEvents' # dbEvents)
               => /\ delPc = "deleteSent" /\ delPc' = "deleteOk"
                  /\ DOMAIN dbEvents' = DOMAIN dbEvents \ {delReq}
                  /\ \A e \in DOMAIN dbEvents' : dbEvents'[e] = dbEvents[e]
                  /\ UNCHANGED <<dbBookings, dbOrders>>
         ]_vars
    /\ [](delPc = "deleteOk" => delReq \notin DOMAIN dbEvents)
    /\ [](\A e \in DOMAIN adminEvents :
            (adminPc = "idle" /\ ~adminLoading /\ delPc = "idle")
               => ENABLED deleteEvent(e, TRUE))

\* the row of an event that a booking and an order refer to was deleted
C21_Witness ==
    /\ delPc = "deleteOk"
    /\ \E i \in 1..Len(dbBookings) : dbBookings[i].event_id = delReq
    /\ \E o \in DOMAIN dbOrders : dbOrders[o].event_id = delReq
    /\ delReq \notin DOMAIN dbEvents

\* the profiles whose stored role is admin
Admins == {u \in DOMAIN dbProfiles : dbProfiles[u].role = "admin"}

\* C22: a toggle asks for role user when the row shows admin and for admin
\* when it shows anything else; the update is applied to the profile whoever
\* it belongs to (the console's own user and the last admin included) and is
\* offered for every row; after a successful toggle the row shows the role
\* asked for; between toggles the rows show the stored roles, and flipping a
\* stored role twice gives it back.
C22_RoleToggle ==
    /\ [][  /\ (rolePc = "idle" /\ rolePc' = "updateSent")
               => \E i \in 1..Len(users) :
                     /\ roleReq'.id = users[i].id
                     /\ roleReq'.next = IF users[i].role = "admin" THEN "user"
                                                                  ELSE "admin"
            /\ (rolePc = "updateSent" /\ rolePc' = "updateOk")
               => /\ dbProfiles'[roleReq.id].role = roleReq.next
                  /\ dbProfiles'[roleReq.id].role # dbProfiles[roleReq.id].role
                  /\ \A u \in DOMAIN dbProfiles \ {roleReq.id} :
                        dbProfiles'[u] = dbProfiles[u]
            /\ (rolePc = "updateOk" /\ rolePc' = "idle")
               => \A i \in 1..Len(users) :
                     users'[i].role = IF users[i].id = roleReq.id
                                      THEN roleReq.next ELSE users[i].role
         ]_vars
    /\ [](\A i \in 1..Len(users) :
            (~adminLoading /\ rolePc = "idle") => ENABLED toggleRole(i))
    /\ [](rolePc = "idle" =>
            \A i \in 1..Len(users) : users[i].role = dbProfiles[users[i].id].role)
    /\ [](\A u \in DOMAIN dbProfiles :
            NextRole(NextRole(dbProfiles[u].role)) = dbProfiles[u].role)

\* the console's own user, the last admin, has been made a user
C22_Witness ==
    /\ rolePc = "updateOk"
    /\ roleReq.id = authUser /\ isAdmin
    /\ roleReq.next = "user"
    /\ Admins = {}

\* the store executes the write of the save in flight
SaveWritten == adminPc = "saving" /\ adminPc' = "saveOk"

\* C23: a save of a modal without an id makes the store insert exactly one
\* row, with the modal's fields and the modal's status (draft when it has
\* none), and update none; a save of a modal with an id makes it update
\* exactly the row of that id to the modal's fields, status included, and
\* insert none; the events table changes in no other step and once per save;
\* after a successful save the modal is closed and fetchAll is under way.
C23_Upsert ==
    [][  /\ (SaveWritten /\ saveReq.id = "")
            => \E e \in NewEventIds \ DOMAIN dbEvents :
                  /\ DOMAIN dbEvents' = DOMAIN dbEvents \cup {e}
                  /\ dbEvents'[e].price = saveReq.price
                  /\ dbEvents'[e].capacity = saveReq.capacity
                  /\ dbEvents'[e].event_date = saveReq.event_date
                  /\ dbEventStatus'[e] = IF saveReq.status = "" THEN "draft"
                                                               ELSE saveReq.status
                  /\ \A x \in DOMAIN dbEvents :
                        dbEvents'[x] = dbEvents[x]
                           /\ dbEventStatus'[x] = dbEventStatus[x]
         /\ (SaveWritten /\ saveReq.id # "")
            => /\ DOMAIN dbEvents' = DOMAIN dbEvents
               /\ saveReq.id \in DOMAIN dbEvents
               /\ dbEvents'[saveReq.id] =
                     [price |-> saveReq.price, capacity |-> saveReq.capacity,
                      available_seats |-> saveReq.available_seats,
                      event_date |-> saveReq.event_date]
               /\ dbEventStatus'[saveReq.id] = saveReq.status
               /\ \A x \in DOMAIN dbEvents \ {saveReq.id} :
                     dbEvents'[x] = dbEvents[x]
                        /\ dbEventStatus'[x] = dbEventStatus[x]
         /\ (dbEvents' # dbEvents \/ dbEventStatus' # dbEventStatus) => SaveWritten
         /\ (adminPc = "saveOk" /\ adminPc' # "saveOk")
            => /\ eventModal' = NoModal /\ ~saving'
               /\ adminPc' = "fetching" /\ adminLoading'
    ]_vars

\* a new event was inserted as published, and now a row without a status
\* has been updated to active
C23_Witness ==
    /\ adminPc = "saveOk"
    /\ saveReq.id = "e1" /\ saveReq.status = "active"
    /\ dbEventStatus["e1"] = "active"
    /\ "e3" \in DOMAIN dbEvents /\ dbEventStatus["e3"] = "published"

\* the sum of the amounts of the orders at the positions in S
RECURSIVE AmountsAt(_)
AmountsAt(S) ==
    IF S = {} THEN 0
    ELSE LET i == CHOOSE x \in S : TRUE
         IN  (IF orders[i].total_amount = NullAmount THEN 0
              ELSE orders[i].total_amount) + AmountsAt(S \ {i})

\* C24: at every moment the overview's total revenue is the sum of the
\* amounts (none counting as 0) of exactly the held orders that are confirmed
\* or completed, its pending count is the number of held orders that are
\* pending, and its active-events count is the number of held events that
\* are published or active.
C24_OverviewStats ==
    /\ totalRevenue =
          AmountsAt({i \in 1..Len(orders) :
                       orders[i].status \in {"confirmed", "completed"}})
    /\ pendingOrders =
          Cardinality({i \in 1..Len(orders) : orders[i].status = "pending"})
    /\ activeEvents =
          Cardinality({e \in DOMAIN adminEvents :
                         adminEvents[e].status \in {"published", "active"}})

\* after an order update both orders count, one confirmed and one completed,
\* and one of the two events is active
C24_Witness ==
    /\ adminToast.msg = "Order updated"
    /\ Len(orders) = 2
    /\ orders[1].status = "completed" /\ orders[2].status = "confirmed"
    /\ totalRevenue = 65 /\ pendingOrders = 0 /\ activeEvents = 1

\* C25: the router of a view that is no longer mounted is never sent to the
\* dashboard; in particular not when the view was torn down while its insert
\* was in flight and the insert then succeeded.
C25_NoRedirectAfterTeardown ==
    [][\A v \in Views :
          (~mounted[v] /\ location'[v] # location[v])
             => location'[v] # "/dashboard"]_vars

\* an insert of the view is in flight
InFlight(v) == pc[v] \in {"insertSent", "insertOk", "insertErr"}

\* C26: a mounted view issues an insert only with none in flight, with
\* bookingLoading and bookingSuccess both false; while one is in flight
\* bookingLoading is true and Confirm is not offered; a successful insert of a
\* mounted view sets bookingSuccess; from then on, as long as the view stays
\* mounted, bookingSuccess stays true, Confirm is not offered, no handler of
\* the view starts, an open modal stays open and the ticket count and the
\* message stay as they are.
C26_OneBookingPerView ==
    /\ [][\A v \in Views :
            /\ InsertIssued(v)
                  => /\ mounted[v] /\ ~InFlight(v)
                     /\ ~bookingLoading[v] /\ ~bookingSuccess[v]
            /\ (pc[v] = "insertOk" /\ pc'[v] # "insertOk" /\ mounted[v])
                  => bookingSuccess'[v]
            /\ (bookingSuccess[v] /\ mounted'[v])
                  => /\ bookingSuccess'[v]
                     /\ showBookingModal[v] => showBookingModal'[v]
                     /\ numTickets'[v] = numTickets[v]
                     /\ bookingError'[v] = bookingError[v]
                     /\ pc'[v] = pc[v]
         ]_vars
    /\ [](\A v \in Views :
            (mounted[v] /\ InFlight(v)) => (bookingLoading[v] /\ ~CanConfirm(v)))
    /\ [](\A v \in Views :
            bookingSuccess[v] => (~CanConfirm(v) /\ ~ENABLED handleBooking(v)))

\* a mounted view shows its success panel, its row in the store and its
\* redirect timer running
C26_Witness ==
    \E v \in Views :
       /\ mounted[v] /\ bookingSuccess[v] /\ showBookingModal[v]
       /\ redirectTimerRef[v] = "pending" /\ pc[v] = "idle"
       /\ \E i \in 1..Len(dbBookings) : dbBookings[i].user_id = user[v]

\* C27: when no handler of the Dashboard is under way, a booking it holds
\* that is cancelled in the store is in the past list and not in the
\* upcoming list.
C27_CancelledLeavesUpcoming ==
    dashPc = "idle" =>
       \A b \in IdsOf(upcomingBookings) \cup IdsOf(pastBookings) :
          dbBookings[b].status = "cancelled"
             => (b \notin IdsOf(upcomingBookings) /\ b \in IdsOf(pastBookings))

heldLists == <<users, adminEvents, orders>>

\* fetchAll's selects are answered
FetchAnswered == adminPc = "fetching" /\ adminPc' = "idle"

\* C29: when toggleRole, updateOrderStatus, deleteEvent or saveEvent ends
\* after a failed write, users, events and orders stay as they were and an
\* error toast with the handler's message goes on show; a failed saveEvent
\* also leaves the modal as it is and sets saving to false.  A held list
\* changes only when its handler ends after a successful write, or when
\* fetchAll's selects are answered.
C29_FailedWrites ==
    [][  /\ (rolePc = "updateErr" /\ rolePc' # "updateErr")
            => /\ UNCHANGED heldLists
               /\ adminToast' = [msg |-> "Failed to update role", type |-> "err"]
         /\ (orderPc = "updateErr" /\ orderPc' # "updateErr")
            => /\ UNCHANGED heldLists
               /\ adminToast' = [msg |-> "Failed to update order", type |-> "err"]
         /\ (delPc = "deleteErr" /\ delPc' # "deleteErr")
            => /\ UNCHANGED heldLists
               /\ adminToast' = [msg |-> "Failed to delete event", type |-> "err"]
         /\ (adminPc = "saveErr" /\ adminPc' # "saveErr")
            => /\ UNCHANGED heldLists
               /\ adminToast' = [msg |-> "Failed to save event", type |-> "err"]
               /\ eventModal' = eventModal /\ ~saving'
         /\ (users' # users)
            => (FetchAnswered \/ (rolePc = "updateOk" /\ rolePc' = "idle"))
         /\ (orders' # orders)
            => (FetchAnswered \/ (orderPc = "updateOk" /\ orderPc' = "idle"))
         /\ (adminEvents' # adminEvents)
            => (FetchAnswered \/ (delPc = "deleteOk" /\ delPc' = "idle"))
         /\ (rolePc' = "updateOk" /\ rolePc # "updateOk")
            => dbProfiles'[roleReq.id].role = roleReq.next
         /\ (orderPc' = "updateOk" /\ orderPc # "updateOk")
            => dbOrders'[orderReq.id].status = orderReq.status
         /\ (delPc' = "deleteOk" /\ delPc # "deleteOk")
            => delReq \notin DOMAIN dbEvents'
    ]_vars

\* a save has failed: its error toast is on show over the open modal, and
\* the lists are the ones fetched
C29_Witness ==
    /\ adminToast = [msg |-> "Failed to save event", type |-> "err"]
    /\ eventModal # NoModal /\ eventModal.status = "active" /\ ~saving
    /\ adminPc = "idle"
    /\ dbEventStatus = AllPublished
    /\ Len(users) = 2 /\ Len(orders) = 2
    /\ \A e \in EventIds : adminEvents[e].status = "published"

\* C30: a timer that fires while a toast is on show is the timer its own
\* showToast call started: no timer of an earlier call is still ahead of
\* it, so the toast is cleared 3 seconds after it was shown and not before.
C30_ToastKeepsItsTime ==
    [][(toastTimers' < toastTimers /\ adminToast # NoToast)
          => toastAhead = 0]_vars

====
